---- MODULE Spec2Model ----
(***************************************************************************)
(* Edge lifecycle of the dependency service: createDependency,             *)
(* updateDependency, deleteDependency and the reads they rely on, run by   *)
(* concurrent request handlers against a PostgreSQL store (READ COMMITTED) *)
(* through DatabaseService.transaction, with events published on the       *)
(* message queue.                                                          *)
(***************************************************************************)
EXTENDS Integers, Sequences, FiniteSets, TLC

\* ------------------------------------------------------------------ bounds
\* at most MaxEdges rows are stored or being inserted at any time
MaxEdges == 2
\* logical timestamps (new Date()) range over 1..MaxClock
MaxClock == 2
\* at most MaxGraphEdges dependencies in a graph handed to the analysis
MaxGraphEdges == 4

\* the dependencies into the hub of a hub graph, and out of it
MaxFan == 4

\* the work items and the dependencies of a graph whose rows are returned
\* in every order
MaxOrderedItems == 3
MaxOrderedEdges == 2

\* the dependencies of the longest chain and of the largest ring that the
\* would-create-cycle probe is run on
MaxChain == 22

\* at most MaxCycleEdges edges in a graph handed to detectCycles
MaxCycleEdges == 3

\* ------------------------------------------------------- program constants
\* "dp.depth < 20" in the recursive query of wouldCreateCycle
DepthLimit == 20

\* ------------------------------------------------------------------ inputs
\* concurrent request handlers
Procs == {1, 2}

\* authenticated principals (req.user), one per tenant
Users ==
    { [id |-> "u1", tenant_id |-> "t1"],
      [id |-> "u2", tenant_id |-> "t2"] }

NoUser == [id |-> "", tenant_id |-> ""]

\* a row of work_items; estimated_duration_days is optional: << >> when the
\* column is null, << d >> when it holds d
WorkItem(id, tenantId, type, status, estimate) ==
    [ id |-> id, tenant_id |-> tenantId, type |-> type, status |-> status,
      estimated_duration_days |-> estimate ]

\* the work_items table; its lifecycle is external, the service only reads it
work_items ==
    { WorkItem("A", "t1", "task", "in_progress", << 4 >>),
      WorkItem("B", "t1", "task", "blocked", << >>),
      WorkItem("C", "t1", "subtask", "todo", << 3 >>),
      WorkItem("X", "t2", "task", "todo", << 2 >>),
      WorkItem("Y", "t2", "initiative", "todo", << >>) }

ItemIds == { w.id : w \in work_items }

\* uuidv4() values
EdgeIds == 1 .. (MaxEdges + 1)

Timestamps == 1 .. MaxClock

DependencyType == { "finish_to_start", "start_to_start" }

VARIABLES
    dependency_edges,   \* committed rows of the dependency_edges table
    call                \* per handler: the request it runs and where it is

vars == << dependency_edges, call >>

\* ----------------------------------------------------------------- helpers
SetMax(S) ==
    IF S = {} THEN 0 ELSE CHOOSE m \in S : \A x \in S : x <= m

\* the order in which an array holds the elements of S when nothing else
\* orders them
RECURSIVE SeqOf(_)
SeqOf(S) ==
    IF S = {}
    THEN << >>
    ELSE LET x == CHOOSE y \in S : TRUE
         IN  << x >> \o SeqOf(S \ { x })

\* the elements of an array
Range(seq) == { seq[i] : i \in 1 .. Len(seq) }

\* a graph without nodes and edges; node_order and edge_order are the orders
\* of the arrays graph.nodes and graph.edges, by id
NoGraph == [ nodes |-> {}, edges |-> {}, node_order |-> << >>, edge_order |-> << >> ]

\* the order in which a query returned its rows, by id
NoOrder == [ items |-> << >>, dependencies |-> << >> ]

\* a query without ORDER BY returns its rows in an order of the store's
\* choosing: here the one of SeqOf
RowOrder(rows) == SeqOf({ r.id : r \in rows })

\* result.rows: the rows in the order ids
InOrder(rows, ids) ==
    [ i \in 1 .. Len(ids) |-> CHOOSE r \in rows : r.id = ids[i] ]

\* the annotations of a graph on which no critical path was computed
NoAnalysis ==
    [ error |-> "", computed |-> FALSE,
      earliest_start |-> << >>, earliest_finish |-> << >>,
      latest_start |-> << >>, latest_finish |-> << >>,
      slack_days |-> << >>, is_critical |-> {}, critical_edges |-> {},
      path |-> << >>, total_duration_days |-> 0,
      cycle_detected |-> FALSE, cycles |-> << >> ]

\* a JavaScript number that is either NaN or the fraction num / den
Num(num, den) == [ nan |-> FALSE, num |-> num, den |-> den ]

NaN == [ nan |-> TRUE, num |-> 0, den |-> 1 ]

\* the connection of a call of DatabaseService.transaction: how often it was
\* taken from the pool and given back, the statements sent on it, and
\* whether the callback threw
NoClient ==
    [ acquired |-> 0, released |-> 0, statements |-> << >>, threw |-> FALSE ]

\* a CycleDetectionResult without a cycle
NoCycles == [ has_cycles |-> FALSE, cycles |-> << >> ]

\* a request handler that runs nothing
Idle ==
    [ op |-> "idle", pc |-> "idle", user |-> NoUser,
      from_id |-> "", to_id |-> "", dependencyId |-> 0,
      fields |-> {},
      data |-> [dependency_type |-> "", lag_days |-> 0, metadata |-> ""],
      workItemIds |-> {}, items |-> {}, order |-> NoOrder, reads |-> {},
      client |-> NoClient, cycleCheck |-> NoCycles,
      existing |-> {}, pending |-> {}, result |-> {},
      error |-> "", chain |-> << >>, outcome |-> "",
      stmts |-> 0, rows |-> 0, events |-> << >>, touched |-> {},
      graph |-> NoGraph, analysis |-> NoAnalysis, bottlenecks |-> << >>,
      risk_score |-> Num(0, 1), completion_probability |-> Num(0, 1) ]

\* rows written by open transactions and not yet committed
PendingRows == UNION { { w.row : w \in call[q].pending } : q \in Procs }

\* new Date() of a statement that writes row `id`: later than every
\* timestamp that row carries, stored or about to be stored
Now(id) ==
    1 + SetMax({ r.updated_at :
                    r \in { x \in dependency_edges \cup PendingRows : x.id = id } })

\* uuidv4(): an id that no row has and no request in flight names
UsedIds ==
    { r.id : r \in dependency_edges \cup PendingRows }
        \cup { call[q].dependencyId : q \in Procs }

FreshId == CHOOSE i \in EdgeIds : i \notin UsedIds /\ \A j \in EdgeIds \ UsedIds : i <= j

\* the handler that takes the next request: the lowest idle one
NextFree(p) ==
    /\ call[p].op = "idle"
    /\ \A q \in Procs : q < p => call[q].op # "idle"

TenantsOf(rows) == { r.tenant_id : r \in rows }

\* ------------------------------------------------------------ the store
\* rows of `rows` a query with "WHERE tenant_id = $1" can match
OfTenant(rows, tenantId) == { r \in rows : r.tenant_id = tenantId }

\* unique(tenant_id, from_id, to_id) of the dependency_edges table
SameKey(r, s) ==
    /\ r.tenant_id = s.tenant_id
    /\ r.from_id = s.from_id
    /\ r.to_id = s.to_id

\* writes of the other open transactions
OtherPending(p) == UNION { call[q].pending : q \in Procs \ {p} }

\* an INSERT waits while another open transaction holds an uncommitted
\* write on a row with the same unique key
InsertWaits(p, row) == \E w \in OtherPending(p) : SameKey(w.row, row)

\* the unique index rejects the INSERT (SQLSTATE 23505)
UniqueViolation(row) == \E r \in dependency_edges : SameKey(r, row)

\* an UPDATE or DELETE waits while another open transaction holds an
\* uncommitted write on the same row
RowWaits(p, id) == \E w \in OtherPending(p) : w.row.id = id

\* COMMIT makes the transaction's writes visible
Apply(rows, pending) ==
    LET ins == { w.row : w \in { x \in pending : x.kind \in {"insert", "update"} } }
        gone == { w.row.id : w \in pending }
    IN  { r \in rows : r.id \notin gone } \cup ins

\* ------------------------------------------------------- wouldCreateCycle
\* the rows of the recursive query dependency_path: `level` holds the rows
\* of depth `depth`, `acc` the rows of smaller depth
RECURSIVE DependencyPath(_, _, _, _, _)
DependencyPath(rows, tenantId, level, depth, acc) ==
    IF level = {} THEN acc
    ELSE IF ~(depth < DepthLimit) THEN acc \cup level
    ELSE DependencyPath(
            rows, tenantId,
            { de \in rows : /\ de.tenant_id = tenantId
                            /\ \E dp \in level : de.from_id = dp.to_id },
            depth + 1, acc \cup level)

\* the recursive query with "dp.depth <= 20" for "dp.depth < 20"
PathRowsOneDeeper(rows, tenantId, fromId, toId) ==
    DependencyPath(
        rows, tenantId,
        { de \in { r \in rows : r.tenant_id = tenantId } :
            \E first \in rows :
                /\ first.tenant_id = tenantId
                /\ first.from_id = toId
                /\ de.from_id = first.to_id },
        1,
        { de \in rows : de.tenant_id = tenantId /\ de.from_id = toId })

\* pathQuery with parameters [tenantId, toId, fromId]
PathRows(rows, tenantId, fromId, toId) ==
    DependencyPath(
        rows, tenantId,
        { de \in rows : de.tenant_id = tenantId /\ de.from_id = toId },
        1, {})

wouldCreateCycle(rows, tenantId, fromId, toId) ==
    LET path == PathRows(rows, tenantId, fromId, toId)
        wouldCycle == \E dp \in path : dp.to_id = fromId
    IN  [ has_cycles |-> wouldCycle,
          cycles |-> IF wouldCycle THEN << << toId, fromId >> >> ELSE << >>,
          read |-> path ]

\* ------------------------------------------------- DatabaseService.transaction
\* the callback threw: catch, ROLLBACK next
Throw(p, kind) ==
    call' = [call EXCEPT ![p].error = kind, ![p].pc = "rollback"]

\* catch: ROLLBACK, then finally: release
Rollback(p) ==
    /\ call[p].pc = "rollback"
    /\ call' = [call EXCEPT ![p].pending = {},
                            ![p].outcome = "rolledback",
                            ![p].pc = "done"]
    /\ UNCHANGED dependency_edges

\* COMMIT, which the store may refuse; then finally: release
Commit(p) ==
    /\ call[p].pc = "commit"
    /\ \/ /\ dependency_edges' = Apply(dependency_edges, call[p].pending)
          /\ call' = [call EXCEPT ![p].pending = {},
                                  ![p].outcome = "committed",
                                  ![p].pc = "done"]
       \/ /\ Throw(p, "DB_ERROR")
          /\ UNCHANGED dependency_edges

\* the handler has answered the request
Return(p) ==
    /\ call[p].pc = "done"
    /\ call' = [call EXCEPT ![p] = Idle]
    /\ UNCHANGED dependency_edges

\* ------------------------------------------------------------ publishing
\* schedulePathRecalculation; the publish may reject
Recalc(p) ==
    /\ call[p].pc = "recalc"
    /\ \/ call' = [call EXCEPT
                ![p].events = Append(@, "critical_path.recalculate"),
                ![p].pc = "publish"]
       \/ Throw(p, "MQ_ERROR")
    /\ UNCHANGED dependency_edges

RoutingKey(op) ==
    CASE op = "create" -> "dependency.created"
      [] op = "update" -> "dependency.updated"
      [] op = "delete" -> "dependency.deleted"

\* messageQueue.publish('dependencies', 'dependency.<kind>', ...)
Publish(p) ==
    /\ call[p].pc = "publish"
    /\ \/ call' = [call EXCEPT
                ![p].events = Append(@, RoutingKey(call[p].op)),
                ![p].pc = "commit"]
       \/ Throw(p, "MQ_ERROR")
    /\ UNCHANGED dependency_edges

\* --------------------------------------------------------- createDependency
\* POST /api/dependencies: pool.connect(), BEGIN, enter the callback
StartCreate(p, user, req) ==
    /\ NextFree(p)
    /\ call' = [call EXCEPT ![p] =
            [Idle EXCEPT !.op = "create", !.pc = "validate", !.user = user,
                         !.from_id = req.from_id, !.to_id = req.to_id,
                         !.fields = {"dependency_type"},
                         !.data.dependency_type = req.dependency_type]]
    /\ UNCHANGED dependency_edges

\* a SELECT of the callback and the connection it is issued on: "client",
\* the connection that holds the transaction, or "pool", the connection that
\* pool.query takes for DatabaseService.query
StoreRead(query, connection) == [ query |-> query, on |-> connection ]

\* 1. validateWorkItemsExist(user, [from_id, to_id]), through this.db.query
validateWorkItemsExist(p) ==
    /\ call[p].pc = "validate"
    /\ LET workItemIds == { call[p].from_id, call[p].to_id }
           found == { w \in work_items :
                        /\ w.tenant_id = call[p].user.tenant_id
                        /\ w.id \in workItemIds }
           missingIds == workItemIds \ { w.id : w \in found }
       IN  IF missingIds # {}
           THEN call' = [call EXCEPT
                    ![p].reads = @ \cup { StoreRead("work_items", "pool") },
                    ![p].touched = @ \cup TenantsOf(found),
                    ![p].error = "WORK_ITEMS_NOT_FOUND",
                    ![p].pc = "rollback"]
           ELSE call' = [call EXCEPT
                    ![p].reads = @ \cup { StoreRead("work_items", "pool") },
                    ![p].touched = @ \cup TenantsOf(found),
                    ![p].pc = "probe"]
    /\ UNCHANGED dependency_edges

\* 2. the would-create-cycle probe, on a connection of the pool
CycleCheck(p) ==
    /\ call[p].pc = "probe"
    /\ LET cycleCheck == wouldCreateCycle(dependency_edges,
                call[p].user.tenant_id, call[p].from_id, call[p].to_id)
       IN  IF cycleCheck.has_cycles
           THEN call' = [call EXCEPT
                    ![p].cycleCheck = [ has_cycles |-> cycleCheck.has_cycles,
                                        cycles |-> cycleCheck.cycles ],
                    ![p].reads = @ \cup { StoreRead("dependency_path", "pool") },
                    ![p].touched = @ \cup TenantsOf(cycleCheck.read),
                    ![p].chain = cycleCheck.cycles[1],
                    ![p].error = "CYCLE_DETECTED",
                    ![p].pc = "rollback"]
           ELSE call' = [call EXCEPT
                    ![p].cycleCheck = [ has_cycles |-> cycleCheck.has_cycles,
                                        cycles |-> cycleCheck.cycles ],
                    ![p].reads = @ \cup { StoreRead("dependency_path", "pool") },
                    ![p].touched = @ \cup TenantsOf(cycleCheck.read),
                    ![p].pc = "dupcheck"]
    /\ UNCHANGED dependency_edges

\* existingQuery with from_id and to_id exchanged
ExistingEdgesReversed(tenantId, fromId, toId) ==
    { r \in dependency_edges :
        r.tenant_id = tenantId /\ r.from_id = toId /\ r.to_id = fromId }

\* the rows of existingQuery
ExistingEdges(tenantId, fromId, toId) ==
    { r \in dependency_edges :
        r.tenant_id = tenantId /\ r.from_id = fromId /\ r.to_id = toId }

\* createDependency without its step 3
DuplicateCheckSkipped(p) ==
    /\ call[p].pc = "dupcheck"
    /\ call' = [call EXCEPT ![p].pc = "insert"]
    /\ UNCHANGED dependency_edges

\* 3. the duplicate check, on the transaction's connection
DuplicateCheck(p) ==
    /\ call[p].pc = "dupcheck"
    /\ LET existingResult ==
            ExistingEdges(call[p].user.tenant_id, call[p].from_id, call[p].to_id)
       IN  IF Cardinality(existingResult) > 0
           THEN call' = [call EXCEPT
                    ![p].reads = @ \cup { StoreRead("existingQuery", "client") },
                    ![p].touched = @ \cup TenantsOf(existingResult),
                    ![p].error = "DUPLICATE_DEPENDENCY",
                    ![p].pc = "rollback"]
           ELSE call' = [call EXCEPT
                    ![p].reads = @ \cup { StoreRead("existingQuery", "client") },
                    ![p].pc = "insert"]
    /\ UNCHANGED dependency_edges

\* the row of the INSERT statement
NewRow(p) ==
    [ id |-> FreshId,
      tenant_id |-> call[p].user.tenant_id,
      from_id |-> call[p].from_id,
      to_id |-> call[p].to_id,
      dependency_type |-> call[p].data.dependency_type,
      lag_days |-> 0,
      created_at |-> Now(FreshId),
      created_by |-> call[p].user.id,
      updated_at |-> Now(FreshId),
      metadata |-> "{}" ]

\* 4. INSERT ... RETURNING *; the statement may fail in the store
Insert(p) ==
    /\ call[p].pc = "insert"
    /\ \/ /\ ~InsertWaits(p, NewRow(p))
          /\ ~UniqueViolation(NewRow(p))
          /\ Cardinality(dependency_edges \cup PendingRows) < MaxEdges
          /\ call' = [call EXCEPT
                ![p].stmts = @ + 1,
                ![p].rows = @ + 1,
                ![p].dependencyId = NewRow(p).id,
                ![p].pending = { [kind |-> "insert", row |-> NewRow(p)] },
                ![p].result = { NewRow(p) },
                ![p].pc = "recalc"]
       \/ /\ ~InsertWaits(p, NewRow(p))
          /\ UniqueViolation(NewRow(p))
          /\ call' = [call EXCEPT ![p].stmts = @ + 1,
                                  ![p].error = "UNIQUE_VIOLATION",
                                  ![p].pc = "rollback"]
       \/ Throw(p, "DB_ERROR")
    /\ UNCHANGED dependency_edges

\* ------------------------------------------------------- getDependencyById
\* SELECT * FROM dependency_edges WHERE id = $1, without the tenant
getDependencyByIdAnyTenant(user, dependencyId) ==
    { r \in dependency_edges : r.id = dependencyId }

\* SELECT * FROM dependency_edges WHERE id = $1 AND tenant_id = $2,
\* on a connection of the pool
getDependencyById(user, dependencyId) ==
    { r \in dependency_edges :
        r.id = dependencyId /\ r.tenant_id = user.tenant_id }

\* GET /api/dependencies/:id
GetDependency(p, user, dependencyId) ==
    /\ NextFree(p)
    /\ LET found == getDependencyById(user, dependencyId)
       IN  call' = [call EXCEPT ![p] =
                [Idle EXCEPT !.op = "get", !.pc = "done", !.user = user,
                             !.dependencyId = dependencyId,
                             !.result = found,
                             !.touched = TenantsOf(found),
                             !.error = IF found = {}
                                       THEN "DEPENDENCY_NOT_FOUND" ELSE ""]]
    /\ UNCHANGED dependency_edges

\* 1. const existing = await this.getDependencyById(user, dependencyId),
\* of updateDependency and of deleteDependency
ReadExisting(p) ==
    /\ call[p].pc = "read"
    /\ LET found == getDependencyById(call[p].user, call[p].dependencyId)
       IN  IF found = {}
           THEN call' = [call EXCEPT
                    ![p].reads = @ \cup { StoreRead("getDependencyById", "pool") },
                    ![p].error = "DEPENDENCY_NOT_FOUND",
                    ![p].pc = "rollback"]
           ELSE call' = [call EXCEPT
                    ![p].reads = @ \cup { StoreRead("getDependencyById", "pool") },
                    ![p].existing = found,
                    ![p].touched = @ \cup TenantsOf(found),
                    ![p].pc = IF call[p].op = "update" THEN "build" ELSE "delete"]
    /\ UNCHANGED dependency_edges

\* --------------------------------------------------------- updateDependency
\* PUT /api/dependencies/:id
StartUpdate(p, user, dependencyId, patch) ==
    /\ NextFree(p)
    /\ call' = [call EXCEPT ![p] =
            [Idle EXCEPT !.op = "update", !.pc = "read", !.user = user,
                         !.dependencyId = dependencyId,
                         !.fields = patch.fields, !.data = patch.data]]
    /\ UNCHANGED dependency_edges

\* an UPDATE that also turns the dependency round
UpdatedTurnedRound(row, fields, data, now) ==
    [ row EXCEPT
        !.from_id = row.to_id, !.to_id = row.from_id,
        !.dependency_type =
            IF "dependency_type" \in fields THEN data.dependency_type ELSE @,
        !.lag_days = IF "lag_days" \in fields THEN data.lag_days ELSE @,
        !.metadata = IF "metadata" \in fields THEN data.metadata ELSE @,
        !.updated_at = now ]

\* SET <the fields of the patch>, updated_at = now
Updated(row, fields, data, now) ==
    [ row EXCEPT
        !.dependency_type =
            IF "dependency_type" \in fields THEN data.dependency_type ELSE @,
        !.lag_days = IF "lag_days" \in fields THEN data.lag_days ELSE @,
        !.metadata = IF "metadata" \in fields THEN data.metadata ELSE @,
        !.updated_at = now ]

\* updates.length === 0 never taken
NoUpdatesIgnored(fields) == FALSE

\* the patch carries none of the three fields
NoUpdates(fields) ==
    fields \cap {"dependency_type", "lag_days", "metadata"} = {}

\* 2. build the update: with nothing to set, return existing
BuildUpdate(p) ==
    /\ call[p].pc = "build"
    /\ IF NoUpdates(call[p].fields)
       THEN call' = [call EXCEPT ![p].result = call[p].existing,
                                 ![p].pc = "commit"]
       ELSE call' = [call EXCEPT ![p].pc = "update"]
    /\ UNCHANGED dependency_edges

\* UPDATE dependency_edges SET ... WHERE id = $n AND tenant_id = $m
\* RETURNING *; updatedDependency = result.rows[0]
Update(p) ==
    /\ call[p].pc = "update"
    /\ \/ /\ ~RowWaits(p, call[p].dependencyId)
          /\ LET target == getDependencyById(call[p].user, call[p].dependencyId)
                 now == Now(call[p].dependencyId)
                 written == { Updated(r, call[p].fields, call[p].data, now) :
                                r \in target }
             IN  /\ target # {} => now \in Timestamps
                 /\ call' = [call EXCEPT
                        ![p].stmts = @ + 1,
                        ![p].rows = @ + Cardinality(target),
                        ![p].touched = @ \cup TenantsOf(target),
                        ![p].pending = { [kind |-> "update", row |-> r] :
                                            r \in written },
                        ![p].result = written,
                        ![p].pc = "recalc"]
       \/ Throw(p, "DB_ERROR")
    /\ UNCHANGED dependency_edges

\* --------------------------------------------------------- deleteDependency
\* DELETE /api/dependencies/:id
StartDelete(p, user, dependencyId) ==
    /\ NextFree(p)
    /\ call' = [call EXCEPT ![p] =
            [Idle EXCEPT !.op = "delete", !.pc = "read", !.user = user,
                         !.dependencyId = dependencyId]]
    /\ UNCHANGED dependency_edges

\* a DELETE whose WHERE clause names the tenant only
DeleteOfTenant(p) ==
    /\ call[p].pc = "delete"
    /\ \/ /\ ~RowWaits(p, call[p].dependencyId)
          /\ LET target == OfTenant(dependency_edges, call[p].user.tenant_id)
             IN  call' = [call EXCEPT
                    ![p].stmts = @ + 1,
                    ![p].rows = @ + Cardinality(target),
                    ![p].touched = @ \cup TenantsOf(target),
                    ![p].pending = { [kind |-> "delete", row |-> r] :
                                        r \in target },
                    ![p].pc = "recalc"]
       \/ Throw(p, "DB_ERROR")
    /\ UNCHANGED dependency_edges

\* 2. DELETE FROM dependency_edges WHERE id = $1 AND tenant_id = $2
Delete(p) ==
    /\ call[p].pc = "delete"
    /\ \/ /\ ~RowWaits(p, call[p].dependencyId)
          /\ LET target == getDependencyById(call[p].user, call[p].dependencyId)
             IN  call' = [call EXCEPT
                    ![p].stmts = @ + 1,
                    ![p].rows = @ + Cardinality(target),
                    ![p].touched = @ \cup TenantsOf(target),
                    ![p].pending = { [kind |-> "delete", row |-> r] :
                                        r \in target },
                    ![p].pc = "recalc"]
       \/ Throw(p, "DB_ERROR")
    /\ UNCHANGED dependency_edges

\* ----------------------------------------------------- buildDependencyGraph
SetMin(S) == CHOOSE m \in S : \A x \in S : m <= x

\* baseDurations[workItem.type] || 7
estimateDuration(workItem) ==
    CASE workItem.type = "objective" -> 90
      [] workItem.type = "strategy" -> 60
      [] workItem.type = "initiative" -> 30
      [] workItem.type = "task" -> 7
      [] workItem.type = "subtask" -> 3
      [] OTHER -> 7

\* item.estimated_duration_days || this.estimateDuration(item): a null and a
\* zero estimate are both falsy
DurationDays(item) ==
    IF item.estimated_duration_days = << >> \/ item.estimated_duration_days[1] = 0
    THEN estimateDuration(item)
    ELSE item.estimated_duration_days[1]

\* nodes from the work items, edges from the dependency rows, no endpoint
\* of an edge is looked up
buildDependencyGraph(workItems, dependencies) ==
    [ nodes |-> { [ id |-> item.id, type |-> item.type, status |-> item.status,
                    duration_days |-> DurationDays(item) ] :
                    item \in Range(workItems) },
      edges |-> { [ id |-> dep.id, from |-> dep.from_id, to |-> dep.to_id,
                    type |-> dep.dependency_type, lag_days |-> dep.lag_days ] :
                    dep \in Range(dependencies) },
      node_order |-> [ i \in 1 .. Len(workItems) |-> workItems[i].id ],
      edge_order |-> [ i \in 1 .. Len(dependencies) |-> dependencies[i].id ] ]

\* ----------------------------------------------------- calculateCriticalPath
NodeIds(graph) == { n.id : n \in graph.nodes }

\* nodeMap.get(nodeId)
NodeOf(graph, nodeId) == CHOOSE n \in graph.nodes : n.id = nodeId

\* adjacencyList.get(nodeId) || []: an edge is entered only when its from is
\* a node of the graph
Successors(graph, nodeId) ==
    IF nodeId \in NodeIds(graph)
    THEN { e.to : e \in { x \in graph.edges : x.from = nodeId } }
    ELSE {}

\* reverseAdjacencyList.get(nodeId) || []: an edge is entered only when its
\* to is a node of the graph
Predecessors(graph, nodeId) ==
    IF nodeId \in NodeIds(graph)
    THEN { e.from : e \in { x \in graph.edges : x.to = nodeId } }
    ELSE {}

\* the lag of every edge taken as 0
LagDaysIgnored(graph, fromId, toId) == 0

\* graph.edges.find(e => e.from === fromId && e.to === toId), then
\* edge ? edge.lag_days : 0
LagDays(graph, fromId, toId) ==
    LET found == { e \in graph.edges : e.from = fromId /\ e.to = toId }
    IN  IF found = {} THEN 0 ELSE (CHOOSE e \in found : TRUE).lag_days

\* an edge one of whose endpoints is no node of the graph: nodeMap.get of it
\* is undefined and reading a property of it throws a TypeError
DanglingEdges(graph) ==
    { e \in graph.edges :
        e.from \notin NodeIds(graph) \/ e.to \notin NodeIds(graph) }

RECURSIVE Ancestors(_, _)
Ancestors(graph, ids) ==
    LET more == ids \cup UNION { Predecessors(graph, n) : n \in ids }
    IN  IF more = ids THEN ids ELSE Ancestors(graph, more)

\* forwardPass(nodeId) calls itself again before earliestFinish has nodeId:
\* the recursion never ends and throws a RangeError
ForwardPassDiverges(graph) ==
    \E n \in NodeIds(graph) : n \in Ancestors(graph, Predecessors(graph, n))

RECURSIVE forwardPass(_, _)
RECURSIVE earliestStart(_, _)
\* maxPredecessorFinish: starts at 0, raised by predFinish + lagDays
earliestStart(graph, nodeId) ==
    SetMax({ 0 } \cup { forwardPass(graph, predId) + LagDays(graph, predId, nodeId) :
                            predId \in Predecessors(graph, nodeId) })

\* the earliest finish of nodeId
forwardPass(graph, nodeId) ==
    earliestStart(graph, nodeId) + NodeOf(graph, nodeId).duration_days

\* Math.max() of no argument
NegInfinity == -1000000

\* the earliest finish of one node taken for the project completion
projectCompletionOfOneNode(graph) ==
    IF graph.nodes = {}
    THEN NegInfinity
    ELSE forwardPass(graph, CHOOSE n \in NodeIds(graph) : TRUE)

\* Math.max(...Array.from(earliestFinish.values()))
projectCompletion(graph) ==
    IF graph.nodes = {}
    THEN NegInfinity
    ELSE SetMax({ forwardPass(graph, n) : n \in NodeIds(graph) })

RECURSIVE backwardPass(_, _)
RECURSIVE latestFinish(_, _)
\* latestFinish with succStart + lagDays
latestFinishLagAdded(graph, nodeId) ==
    IF Successors(graph, nodeId) = {}
    THEN forwardPass(graph, nodeId)
    ELSE SetMin({ projectCompletion(graph) } \cup
                { backwardPass(graph, succId) + LagDays(graph, nodeId, succId) :
                        succId \in Successors(graph, nodeId) })

\* minSuccessorStart: the node's own earliest finish for an end node, else
\* projectCompletion lowered by succStart - lagDays
latestFinish(graph, nodeId) ==
    IF Successors(graph, nodeId) = {}
    THEN forwardPass(graph, nodeId)
    ELSE SetMin({ projectCompletion(graph) } \cup
                { backwardPass(graph, succId) - LagDays(graph, nodeId, succId) :
                        succId \in Successors(graph, nodeId) })

\* the latest start of nodeId
backwardPass(graph, nodeId) ==
    latestFinish(graph, nodeId) - NodeOf(graph, nodeId).duration_days

\* the four maps, the annotations written on the nodes and the edges, and
\* the returned path and total_duration_days
calculateCriticalPath(graph) ==
    IF DanglingEdges(graph) # {} \/ ForwardPassDiverges(graph)
    THEN [ NoAnalysis EXCEPT !.error = "INTERNAL_ERROR" ]
    ELSE LET ids == NodeIds(graph)
             slack == [ n \in ids |->
                            backwardPass(graph, n) - earliestStart(graph, n) ]
             criticalNodes == { n \in ids : slack[n] = 0 }
             IsCritical(n) == slack[n] = 0
         IN  [ NoAnalysis EXCEPT
                !.computed = TRUE,
                !.earliest_start = [ n \in ids |-> earliestStart(graph, n) ],
                !.earliest_finish = [ n \in ids |-> forwardPass(graph, n) ],
                !.latest_start = [ n \in ids |-> backwardPass(graph, n) ],
                !.latest_finish = [ n \in ids |-> latestFinish(graph, n) ],
                !.slack_days = slack,
                !.is_critical = criticalNodes,
                !.critical_edges = { e \in graph.edges :
                        e.from \in criticalNodes /\ e.to \in criticalNodes },
                !.path = SelectSeq(graph.node_order, IsCritical),
                !.total_duration_days = projectCompletion(graph) ]

\* the neighbors of a node, an edge from the node to itself left out
NeighborsWithoutSelf(graph, nodeId) ==
    IF nodeId \in NodeIds(graph)
    THEN LET EdgeOf(id) == CHOOSE e \in graph.edges : e.id = id
             Leaves(id) == EdgeOf(id).from = nodeId /\ EdgeOf(id).to # nodeId
             out == SelectSeq(graph.edge_order, Leaves)
         IN  [ i \in 1 .. Len(out) |-> EdgeOf(out[i]).to ]
    ELSE << >>

\* -------------------------------------------------------------- detectCycles
\* adjacencyList.get(nodeId) || []: the to of the edges out of nodeId, in
\* the order of graph.edges
Neighbors(graph, nodeId) ==
    IF nodeId \in NodeIds(graph)
    THEN LET EdgeOf(id) == CHOOSE e \in graph.edges : e.id = id
             Leaves(id) == EdgeOf(id).from = nodeId
             out == SelectSeq(graph.edge_order, Leaves)
         IN  [ i \in 1 .. Len(out) |-> EdgeOf(out[i]).to ]
    ELSE << >>

\* path.indexOf(neighbor), and -1 read by slice as the last position
CycleStart(path, neighbor) ==
    IF \E i \in 1 .. Len(path) : path[i] = neighbor
    THEN CHOOSE i \in 1 .. Len(path) :
            /\ path[i] = neighbor
            /\ \A j \in 1 .. (i - 1) : path[j] # neighbor
    ELSE Len(path)

RECURSIVE dfs(_, _, _, _)
RECURSIVE VisitNeighbors(_, _, _, _, _)
\* the for loop of dfs over the neighbors that are left
VisitNeighbors(graph, nodeId, path, neighbors, st) ==
    IF neighbors = << >>
    THEN [ st EXCEPT !.recursionStack = @ \ { nodeId }, !.found = FALSE ]
    ELSE LET neighbor == Head(neighbors)
         IN  IF neighbor \notin st.visited
             THEN LET r == dfs(graph, neighbor, path, st)
                  IN  IF r.found
                      THEN r
                      ELSE VisitNeighbors(graph, nodeId, path, Tail(neighbors), r)
             ELSE IF neighbor \in st.recursionStack
                  THEN [ st EXCEPT
                            !.cycles = Append(@,
                                SubSeq(path, CycleStart(path, neighbor), Len(path))
                                    \o << neighbor >>),
                            !.found = TRUE ]
                  ELSE VisitNeighbors(graph, nodeId, path, Tail(neighbors), st)

dfs(graph, nodeId, path, st) ==
    VisitNeighbors(graph, nodeId, Append(path, nodeId),
        Neighbors(graph, nodeId),
        [ st EXCEPT !.visited = @ \cup { nodeId },
                    !.recursionStack = @ \cup { nodeId } ])

\* the loop over the nodes, left at the first search that found a cycle
RECURSIVE CheckEachUntilFound(_, _, _)
CheckEachUntilFound(graph, nodes, st) ==
    IF nodes = << >> \/ st.found
    THEN st
    ELSE IF Head(nodes) \notin st.visited
         THEN CheckEachUntilFound(graph, Tail(nodes),
                    dfs(graph, Head(nodes), << >>, st))
         ELSE CheckEachUntilFound(graph, Tail(nodes), st)

\* "Check each unvisited node"
RECURSIVE CheckEach(_, _, _)
CheckEach(graph, nodes, st) ==
    IF nodes = << >>
    THEN st
    ELSE IF Head(nodes) \notin st.visited
         THEN CheckEach(graph, Tail(nodes), dfs(graph, Head(nodes), << >>, st))
         ELSE CheckEach(graph, Tail(nodes), st)

detectCycles(graph) ==
    LET st == CheckEach(graph, graph.node_order,
                [ visited |-> {}, recursionStack |-> {}, cycles |-> << >>,
                  found |-> FALSE ])
    IN  [ has_cycles |-> Len(st.cycles) > 0,
          cycles |-> st.cycles,
          affected_work_items |->
                UNION { { st.cycles[i][j] : j \in 1 .. Len(st.cycles[i]) } :
                            i \in 1 .. Len(st.cycles) } ]

\* -------------------------------------------------------- identifyBottlenecks
\* the thresholds taken as reached by three edges
riskFactorsFromThree(graph, node) ==
    LET incomingEdges == { e \in graph.edges : e.to = node.id }
        outgoingEdges == { e \in graph.edges : e.from = node.id }
    IN  (IF Cardinality(incomingEdges) >= 3
         THEN << "High dependency count" >> ELSE << >>)
        \o (IF Cardinality(outgoingEdges) >= 3
            THEN << "Blocks many items" >> ELSE << >>)
        \o (IF node.status = "blocked" THEN << "Currently blocked" >> ELSE << >>)
        \o (IF node.duration_days > 30 THEN << "Long duration" >> ELSE << >>)

\* the riskFactors array of a node: the four pushes in their order
riskFactors(graph, node) ==
    LET incomingEdges == { e \in graph.edges : e.to = node.id }
        outgoingEdges == { e \in graph.edges : e.from = node.id }
    IN  (IF Cardinality(incomingEdges) > 3
         THEN << "High dependency count" >> ELSE << >>)
        \o (IF Cardinality(outgoingEdges) > 3
            THEN << "Blocks many items" >> ELSE << >>)
        \o (IF node.status = "blocked" THEN << "Currently blocked" >> ELSE << >>)
        \o (IF node.duration_days > 30 THEN << "Long duration" >> ELSE << >>)

\* bottlenecks.sort((a, b) => b.delay_impact_days - a.delay_impact_days):
\* a stable sort, the entry b goes behind the entries that do not come
\* after it
RECURSIVE sortByDelayImpact(_)
sortByDelayImpact(bottlenecks) ==
    IF bottlenecks = << >>
    THEN << >>
    ELSE LET sorted == sortByDelayImpact(SubSeq(bottlenecks, 1, Len(bottlenecks) - 1))
             b == bottlenecks[Len(bottlenecks)]
             Before(a) == a.delay_impact_days >= b.delay_impact_days
             After(a) == a.delay_impact_days < b.delay_impact_days
         IN  SelectSeq(sorted, Before) \o << b >> \o SelectSeq(sorted, After)

\* the entries pushed in the order of graph.nodes, then sorted
identifyBottlenecks(graph, analysis) ==
    LET Qualifies(id) ==
            /\ id \in analysis.is_critical
            /\ analysis.slack_days[id] = 0
            /\ Len(riskFactors(graph, NodeOf(graph, id))) > 0
        pushed == SelectSeq(graph.node_order, Qualifies)
    IN  sortByDelayImpact(
            [ i \in 1 .. Len(pushed) |->
                [ work_item_id |-> pushed[i],
                  delay_impact_days |-> NodeOf(graph, pushed[i]).duration_days,
                  risk_factors |-> riskFactors(graph, NodeOf(graph, pushed[i])) ] ])

\* --------------------------------------------------------- calculateRiskScore
\* Math.min(riskScore / graph.nodes.length, 1), in tenths: 0 / 0 is NaN and
\* Math.min of NaN is NaN
calculateRiskScore(graph, analysis) ==
    LET criticalNodes == { n \in graph.nodes : n.id \in analysis.is_critical }
        blockedNodes == { n \in graph.nodes : n.status = "blocked" }
        longDurationNodes == { n \in graph.nodes : n.duration_days > 30 }
        riskScore == Cardinality(criticalNodes) * 3
                        + Cardinality(blockedNodes) * 5
                        + Cardinality(longDurationNodes) * 2
        length == Cardinality(graph.nodes)
    IN  IF length = 0
        THEN NaN
        ELSE IF riskScore >= 10 * length
             THEN Num(10 * length, 10 * length)
             ELSE Num(riskScore, 10 * length)

\* Math.max(0.1, 1 - riskScore); Math.max of NaN is NaN
estimateCompletionProbability(riskScore) ==
    IF riskScore.nan
    THEN NaN
    ELSE IF 10 * (riskScore.den - riskScore.num) >= riskScore.den
         THEN Num(riskScore.den - riskScore.num, riskScore.den)
         ELSE Num(1, 10)

\* -------------------------------------------------------- getDependencyGraph
\* GET /api/graph: the two queries, buildDependencyGraph,
\* calculateCriticalPath, detectCycles; an exception of the analysis is
\* answered as INTERNAL_ERROR and no graph is returned; filter.given tells
\* whether work_item_ids was passed
getDependencyGraph(p, user, filter) ==
    /\ NextFree(p)
    /\ LET workItems ==
            { w \in work_items :
                /\ w.tenant_id = user.tenant_id
                /\ filter.given => w.id \in filter.ids }
           dependencies ==
            { d \in dependency_edges :
                /\ d.tenant_id = user.tenant_id
                /\ filter.given =>
                        (d.from_id \in filter.ids \/ d.to_id \in filter.ids) }
           order == [ items |-> RowOrder(workItems),
                      dependencies |-> RowOrder(dependencies) ]
           graph == buildDependencyGraph(InOrder(workItems, order.items),
                        InOrder(dependencies, order.dependencies))
           criticalPath == calculateCriticalPath(graph)
           cycleDetection == detectCycles(graph)
       IN  call' = [call EXCEPT ![p] =
                [Idle EXCEPT !.op = "graph", !.pc = "done", !.user = user,
                             !.workItemIds = filter.ids,
                             !.items = workItems,
                             !.result = dependencies,
                             !.order = order,
                             !.touched = TenantsOf(workItems)
                                            \cup TenantsOf(dependencies),
                             !.error = criticalPath.error,
                             !.graph = IF criticalPath.error = ""
                                       THEN graph ELSE NoGraph,
                             !.analysis =
                                IF criticalPath.error = ""
                                THEN [ criticalPath EXCEPT
                                        !.cycle_detected = cycleDetection.has_cycles,
                                        !.cycles = cycleDetection.cycles ]
                                ELSE NoAnalysis ]]
    /\ UNCHANGED dependency_edges

\* ------------------------------------------------------------------ requests
\* request bodies of POST /api/dependencies
CreateRequest(f, t) ==
    [from_id |-> f, to_id |-> t, dependency_type |-> "finish_to_start"]

\* request bodies of PUT /api/dependencies/:id
Patch(fields, type, lag, meta) ==
    [ fields |-> fields,
      data |-> [dependency_type |-> type, lag_days |-> lag, metadata |-> meta] ]

EmptyPatch == Patch({}, "", 0, "")

LagPatch == Patch({"lag_days"}, "", 5, "")

TypePatch == Patch({"dependency_type", "metadata"}, "start_to_start", 0, "m")

NoFilter == [given |-> FALSE, ids |-> {}]

Filter(ids) == [given |-> TRUE, ids |-> ids]

User(tenantId) == CHOOSE u \in Users : u.tenant_id = tenantId

\* requests of the serial runs: two tenants; chains, a self-loop and a
\* closing edge over A, B, C; work items of the other tenant
SeqCreates ==
    { [user |-> User("t1"), req |-> CreateRequest(pair[1], pair[2])] :
        pair \in { <<"A", "A">>, <<"A", "B">>, <<"B", "A">>, <<"B", "C">>,
                   <<"C", "A">>, <<"A", "X">> } }
    \cup { [user |-> User("t2"), req |-> CreateRequest(pair[1], pair[2])] :
        pair \in { <<"X", "Y">>, <<"X", "A">> } }

SeqPatches == { EmptyPatch, LagPatch, TypePatch }

SeqFilters == { NoFilter, Filter({"A", "X"}) }

\* requests of the concurrent runs: one tenant, two work items
ConcUsers == { User("t1") }

ConcCreates ==
    { [user |-> User("t1"), req |-> CreateRequest(pair[1], pair[2])] :
        pair \in { <<"A", "B">>, <<"B", "A">> } }

ConcPatches == { LagPatch }

\* a mutation arrives at handler p
Mutation(p, users, creates, patches) ==
    \/ \E c \in creates : StartCreate(p, c.user, c.req)
    \/ \E user \in users, id \in EdgeIds, patch \in patches :
            StartUpdate(p, user, id, patch)
    \/ \E user \in users, id \in EdgeIds : StartDelete(p, user, id)

\* a read arrives at handler p
Read(p, users, filters) ==
    \/ \E user \in users, id \in EdgeIds : GetDependency(p, user, id)
    \/ \E user \in users, filter \in filters : getDependencyGraph(p, user, filter)

\* handler p runs to its next await
Step(p) ==
    \/ validateWorkItemsExist(p)
    \/ CycleCheck(p)
    \/ DuplicateCheck(p)
    \/ Insert(p)
    \/ ReadExisting(p)
    \/ BuildUpdate(p)
    \/ Update(p)
    \/ Delete(p)
    \/ Recalc(p)
    \/ Publish(p)
    \/ Commit(p)
    \/ Rollback(p)
    \/ Return(p)

\* ------------------------------------------------- getCriticalPathAnalysis
\* GET /api/critical-path, from the rows its two queries returned.
\* call[p].items holds the work items, call[p].result the dependency rows.

\* 3. buildDependencyGraph(workItems, dependencies)
BuildGraph(p) ==
    /\ call[p].pc = "build"
    /\ call' = [call EXCEPT
            ![p].graph = buildDependencyGraph(
                            InOrder(call[p].items, call[p].order.items),
                            InOrder(call[p].result, call[p].order.dependencies)),
            ![p].touched = TenantsOf(call[p].items) \cup TenantsOf(call[p].result),
            ![p].pc = "cpm"]
    /\ UNCHANGED dependency_edges

\* 4. calculateCriticalPath(graph), 5. detectCycles(graph); an exception
\* ends the request
CriticalPath(p) ==
    /\ call[p].pc = "cpm"
    /\ LET criticalPath == calculateCriticalPath(call[p].graph)
           cycleDetection == detectCycles(call[p].graph)
       IN  IF criticalPath.error # ""
           THEN call' = [call EXCEPT ![p].error = criticalPath.error,
                                     ![p].graph = NoGraph,
                                     ![p].pc = "done"]
           ELSE call' = [call EXCEPT
                    ![p].analysis = [ criticalPath EXCEPT
                            !.cycle_detected = cycleDetection.has_cycles,
                            !.cycles = cycleDetection.cycles ],
                    ![p].pc = "risk"]
    /\ UNCHANGED dependency_edges

\* identifyBottlenecks, calculateRiskScore, estimateCompletionProbability
RiskAnalysis(p) ==
    /\ call[p].pc = "risk"
    /\ LET riskScore == calculateRiskScore(call[p].graph, call[p].analysis)
       IN  call' = [call EXCEPT
                ![p].bottlenecks =
                    identifyBottlenecks(call[p].graph, call[p].analysis),
                ![p].risk_score = riskScore,
                ![p].completion_probability =
                    estimateCompletionProbability(riskScore),
                ![p].pc = "done"]
    /\ UNCHANGED dependency_edges

\* the work items of a tenant, in two fillings of the table
AnalysisItems ==
    { { WorkItem("A", "t1", "task", "in_progress", << 4 >>),
        WorkItem("B", "t1", "task", "todo", << 2 >>),
        WorkItem("C", "t1", "task", "todo", << 3 >>),
        WorkItem("D", "t1", "task", "todo", << 1 >>) },
      { WorkItem("A", "t1", "initiative", "todo", << >>),
        WorkItem("B", "t1", "task", "blocked", << 40 >>),
        WorkItem("C", "t1", "subtask", "todo", << 0 >>),
        WorkItem("D", "t1", "task", "in_progress", << 2 >>) } }

\* lag_days of the stored dependencies
Lags == { -5, 0, 1 }

\* the pairs (from_id, to_id) of the dependencies: every set of them is acyclic
ForwardPairs ==
    { << "A", "B" >>, << "A", "C" >>, << "A", "D" >>,
      << "B", "C" >>, << "B", "D" >>, << "C", "D" >> }

\* the dependency row of a pair
DependencyRow(pair, lag) ==
    [ id |-> CHOOSE i \in 1 .. 6 :
                pair = << << "A", "B" >>, << "A", "C" >>, << "A", "D" >>,
                          << "B", "C" >>, << "B", "D" >>, << "C", "D" >> >>[i],
      tenant_id |-> "t1",
      from_id |-> pair[1],
      to_id |-> pair[2],
      dependency_type |-> "finish_to_start",
      lag_days |-> lag,
      created_at |-> 1,
      created_by |-> "u1",
      updated_at |-> 1,
      metadata |-> "{}" ]

\* what the two queries can return: some work items of the tenant and at
\* most MaxGraphEdges dependencies among them
AnalysisInputs ==
    UNION { UNION { UNION {
        { [ items |-> workItems,
            dependencies |-> { DependencyRow(pr, lag[pr]) : pr \in pairs } ] :
            lag \in [ pairs -> Lags ] } :
        pairs \in { ps \in SUBSET { pr \in ForwardPairs :
                            { pr[1], pr[2] } \subseteq { w.id : w \in workItems } } :
                        Cardinality(ps) <= MaxGraphEdges } } :
        workItems \in SUBSET table } :
        table \in AnalysisItems }

\* the request of a principal of t1 with the rows of its queries at hand
AnalysisRequest(input) ==
    [ Idle EXCEPT !.op = "critical_path", !.pc = "build",
                  !.user = User("t1"),
                  !.items = input.items, !.result = input.dependencies,
                  !.order = [ items |-> RowOrder(input.items),
                              dependencies |-> RowOrder(input.dependencies) ] ]

\* ------------------------------------------------------------ specification
Init ==
    /\ dependency_edges = {}
    /\ call = [p \in Procs |-> Idle]

\* concurrent request handlers
Next ==
    \E p \in Procs :
        \/ Mutation(p, ConcUsers, ConcCreates, ConcPatches)
        \/ Step(p)

Spec == Init /\ [][Next]_vars

\* one request at a time: the next arrives when the last was answered
NextSeq ==
    \/ Mutation(1, Users, SeqCreates, SeqPatches)
    \/ Read(1, Users, SeqFilters)
    \/ Step(1)

SpecSeq == Init /\ [][NextSeq]_vars

\* the critical-path analysis of every graph of AnalysisInputs
InitCpm ==
    /\ dependency_edges = {}
    /\ call \in { [ p \in Procs |-> IF p = 1 THEN AnalysisRequest(input) ELSE Idle ] :
                    input \in AnalysisInputs }

NextCpm ==
    \/ BuildGraph(1)
    \/ CriticalPath(1)
    \/ RiskAnalysis(1)
    \/ Return(1)

SpecCpm == InitCpm /\ [][NextCpm]_vars

\* ------------------------------------------------------------- hub graphs
\* at most MaxFan dependencies into the hub H and at most MaxFan out of it
HubPredecessors == SubSeq(<< "P1", "P2", "P3", "P4", "P5", "P6" >>, 1, MaxFan)

HubSuccessors == SubSeq(<< "S1", "S2", "S3", "S4", "S5", "S6" >>, 1, MaxFan)

\* the work item beside the hub with the number i
HubNeighbor(id, i) ==
    CASE i = 1 -> WorkItem(id, "t1", "task", "todo", << 2 >>)
      [] i = 2 -> WorkItem(id, "t1", "task", "blocked", << 2 >>)
      [] i = 3 -> WorkItem(id, "t1", "task", "todo", << 35 >>)
      [] i = 4 -> WorkItem(id, "t1", "initiative", "todo", << >>)
      [] OTHER -> WorkItem(id, "t1", "objective", "blocked", << >>)

\* the hub: blocked or not, long or not
HubItems ==
    { WorkItem("H", "t1", "task", status, << d >>) :
        status \in { "in_progress", "blocked" }, d \in { 5, 40 } }

HubRow(id, fromId, toId) ==
    [ id |-> id, tenant_id |-> "t1", from_id |-> fromId, to_id |-> toId,
      dependency_type |-> "finish_to_start", lag_days |-> 0,
      created_at |-> 1, created_by |-> "u1", updated_at |-> 1,
      metadata |-> "{}" ]

\* what the two queries can return: the hub, its neighbours and the
\* dependencies of some of them on the hub or of the hub on them
HubInputs ==
    { [ items |-> { hub }
                    \cup { HubNeighbor(HubPredecessors[i], i) : i \in 1 .. MaxFan }
                    \cup { HubNeighbor(HubSuccessors[i], i) : i \in 1 .. MaxFan },
        dependencies |->
            { HubRow(i, HubPredecessors[i], "H") : i \in preds }
                \cup { HubRow(MaxFan + i, "H", HubSuccessors[i]) : i \in succs } ] :
        hub \in HubItems, preds \in SUBSET (1 .. MaxFan),
        succs \in SUBSET (1 .. MaxFan) }

InitHub ==
    /\ dependency_edges = {}
    /\ call \in { [ p \in Procs |-> IF p = 1 THEN AnalysisRequest(input) ELSE Idle ] :
                    input \in HubInputs }

\* the critical-path analysis of every graph of HubInputs
SpecHub == InitHub /\ [][NextCpm]_vars

\* ------------------------------------------------- requests naming a type
\* a request body of POST /api/dependencies with the dependency_type `type`
TypedRequest(f, t, type) ==
    [from_id |-> f, to_id |-> t, dependency_type |-> type]

\* creates of one tenant whose dependency_type is one of the four types or
\* another non-empty string
TypedCreates ==
    { [user |-> User("t1"), req |-> TypedRequest(c[1], c[2], c[3])] :
        c \in { << "A", "B", "finish_to_finish" >>, << "A", "B", "blocks" >>,
                << "B", "A", "blocks" >>, << "B", "C", "start_to_finish" >> } }

\* a patch that sets the dependency_type to such a string
TypedPatches == { Patch({"dependency_type"}, "blocks", 0, "") }

\* one request at a time
NextTyped ==
    \/ Mutation(1, { User("t1") }, TypedCreates, TypedPatches)
    \/ Step(1)

SpecTyped == Init /\ [][NextTyped]_vars

\* ------------------------------------ DatabaseService.transaction, by step
\* transaction(callback) statement by statement, for a callback that writes
\* a row of its own or nothing and then returns or throws.

\* the row that the callback of handler p writes
TxRow(p, lag) ==
    [ id |-> p, tenant_id |-> "t1",
      from_id |-> IF p = 1 THEN "A" ELSE "B",
      to_id |-> IF p = 1 THEN "B" ELSE "C",
      dependency_type |-> "finish_to_start", lag_days |-> lag,
      created_at |-> 1, created_by |-> "u1", updated_at |-> 1,
      metadata |-> "{}" ]

\* const client = await this.pool.connect(), which rejects when no
\* connection is to be had: nothing was acquired then
TxConnect(p) ==
    /\ call[p].op = "idle"
    /\ \/ call' = [call EXCEPT ![p] =
                [Idle EXCEPT !.op = "transaction", !.pc = "begin",
                             !.user = User("t1"),
                             !.client.acquired = 1]]
       \/ call' = [call EXCEPT ![p] =
                [Idle EXCEPT !.op = "transaction", !.pc = "done",
                             !.user = User("t1"),
                             !.error = "CONNECT_ERROR"]]
    /\ UNCHANGED dependency_edges

\* await client.query('BEGIN')
TxBegin(p) ==
    /\ call[p].pc = "begin"
    /\ \/ call' = [call EXCEPT ![p].client.statements = Append(@, "BEGIN"),
                               ![p].pc = "callback"]
       \/ call' = [call EXCEPT ![p].client.statements = Append(@, "BEGIN"),
                               ![p].error = "DB_ERROR",
                               ![p].pc = "catch"]
    /\ UNCHANGED dependency_edges

\* const result = await callback(client)
TxCallback(p) ==
    /\ call[p].pc = "callback"
    /\ \E rows \in { {} } \cup { { TxRow(p, lag) } : lag \in { 0, 1 } } :
        \/ call' = [call EXCEPT
                ![p].pending = { [kind |-> "insert", row |-> r] : r \in rows },
                ![p].result = rows,
                ![p].pc = "commit"]
        \/ call' = [call EXCEPT
                ![p].pending = { [kind |-> "insert", row |-> r] : r \in rows },
                ![p].result = rows,
                ![p].client.threw = TRUE,
                ![p].error = "CALLBACK_ERROR",
                ![p].pc = "catch"]
    /\ UNCHANGED dependency_edges

\* await client.query('COMMIT'); return result
TxCommit(p) ==
    /\ call[p].pc = "commit"
    /\ \/ /\ dependency_edges' = Apply(dependency_edges, call[p].pending)
          /\ call' = [call EXCEPT ![p].client.statements = Append(@, "COMMIT"),
                                  ![p].pending = {},
                                  ![p].outcome = "committed",
                                  ![p].pc = "finally"]
       \/ /\ call' = [call EXCEPT ![p].client.statements = Append(@, "COMMIT"),
                                  ![p].error = "DB_ERROR",
                                  ![p].pc = "catch"]
          /\ UNCHANGED dependency_edges

\* the catch block with client.release() behind the ROLLBACK instead of in
\* a finally block
TxRollbackThenRelease(p) ==
    /\ call[p].pc = "catch"
    /\ \/ call' = [call EXCEPT ![p].client.statements = Append(@, "ROLLBACK"),
                               ![p].pending = {},
                               ![p].outcome = "rolledback",
                               ![p].pc = "finally"]
       \/ call' = [call EXCEPT ![p].client.statements = Append(@, "ROLLBACK"),
                               ![p].pending = {},
                               ![p].outcome = "aborted",
                               ![p].error = "ROLLBACK_ERROR",
                               ![p].pc = "done"]
    /\ UNCHANGED dependency_edges

\* catch (error) { await client.query('ROLLBACK'); ...; throw error }: a
\* ROLLBACK that fails throws its own error out of the catch block, and the
\* store drops the transaction with the connection; the finally block runs
\* either way
TxRollback(p) ==
    /\ call[p].pc = "catch"
    /\ \/ call' = [call EXCEPT ![p].client.statements = Append(@, "ROLLBACK"),
                               ![p].pending = {},
                               ![p].outcome = "rolledback",
                               ![p].pc = "finally"]
       \/ call' = [call EXCEPT ![p].client.statements = Append(@, "ROLLBACK"),
                               ![p].pending = {},
                               ![p].outcome = "aborted",
                               ![p].error = "ROLLBACK_ERROR",
                               ![p].pc = "finally"]
    /\ UNCHANGED dependency_edges

\* finally { client.release() }
TxRelease(p) ==
    /\ call[p].pc = "finally"
    /\ call' = [call EXCEPT ![p].client.released = @ + 1,
                            ![p].pc = "done"]
    /\ UNCHANGED dependency_edges

\* concurrent calls of transaction
NextTx ==
    \E p \in Procs :
        \/ TxConnect(p)
        \/ TxBegin(p)
        \/ TxCallback(p)
        \/ TxCommit(p)
        \/ TxRollback(p)
        \/ TxRelease(p)
        \/ Return(p)

SpecTx == Init /\ [][NextTx]_vars

\* ------------------------------------------------------------- row orders
\* the orders in which a query without ORDER BY can return the rows
Orders(rows) ==
    LET ids == { r.id : r \in rows }
    IN  { seq \in [ 1 .. Cardinality(ids) -> ids ] : Range(seq) = ids }

\* the request with the rows of its two queries at hand, each in one of its
\* orders: graphs of at most MaxOrderedItems work items and MaxOrderedEdges
\* dependencies without lag
InitOrder ==
    LET OrderInputs ==
            { input \in AnalysisInputs :
                /\ Cardinality(input.items) <= MaxOrderedItems
                /\ Cardinality(input.dependencies) <= MaxOrderedEdges
                /\ \A d \in input.dependencies : d.lag_days = 0 }
        OrderedRequests ==
            UNION { UNION {
                { [ AnalysisRequest(input) EXCEPT
                        !.order = [ items |-> itemOrder,
                                    dependencies |-> dependencyOrder ] ] :
                    dependencyOrder \in Orders(input.dependencies) } :
                itemOrder \in Orders(input.items) } :
                input \in OrderInputs }
    IN  /\ dependency_edges = {}
        /\ call \in { [ p \in Procs |-> IF p = 1 THEN request ELSE Idle ] :
                        request \in OrderedRequests }

\* the critical-path analysis of these graphs, for every order of their rows
SpecOrder == InitOrder /\ [][NextCpm]_vars

\* --------------------------------------------- stores of chains and rings
\* ids of work items
ChainIds ==
    << "n01", "n02", "n03", "n04", "n05", "n06", "n07", "n08", "n09", "n10",
       "n11", "n12", "n13", "n14", "n15", "n16", "n17", "n18", "n19", "n20",
       "n21", "n22", "n23", "n24", "n25" >>

\* the stored dependency number i, of work item i on work item j
ChainRow(i, j, tenantId) ==
    [ id |-> i, tenant_id |-> tenantId,
      from_id |-> ChainIds[i], to_id |-> ChainIds[j],
      dependency_type |-> "finish_to_start", lag_days |-> 0,
      created_at |-> 1, created_by |-> "u1", updated_at |-> 1,
      metadata |-> "{}" ]

\* n01 -> n02 -> ... of n dependencies
Chain(n) == { ChainRow(i, i + 1, "t1") : i \in 1 .. n }

\* the chain of n - 1 dependencies closed by one from its end to its start:
\* a store that holds a cycle
Ring(n) == Chain(n - 1) \cup { ChainRow(n, 1, "t1") }

\* the chain with its third dependency owned by the other tenant
BrokenChain(n) ==
    { IF r.id = 3 THEN ChainRow(3, 4, "t2") ELSE r : r \in Chain(n) }

ProbeStores ==
    { Chain(n) : n \in 0 .. MaxChain }
        \cup { Ring(n) : n \in 1 .. MaxChain }
        \cup { BrokenChain(n) : n \in 3 .. MaxChain }

\* createDependency of tenant t1 about to run its probe
ProbeRequest(fromId, toId) ==
    [ Idle EXCEPT !.op = "create", !.pc = "probe", !.user = User("t1"),
                  !.from_id = fromId, !.to_id = toId,
                  !.fields = {"dependency_type"},
                  !.data.dependency_type = "finish_to_start" ]

InitProbe ==
    /\ dependency_edges \in ProbeStores
    /\ call \in { [ p \in Procs |->
                    IF p = 1
                    THEN ProbeRequest(ChainIds[from], ChainIds[to])
                    ELSE Idle ] :
                    from \in 1 .. (MaxChain + 1), to \in 1 .. 3 }

\* the probe, then what a hit leads to
NextProbe ==
    \/ CycleCheck(1)
    \/ Rollback(1)
    \/ Return(1)

\* wouldCreateCycle on every store of ProbeStores
SpecProbe == InitProbe /\ [][NextProbe]_vars

\* ---------------------------------------------- detectCycles on any graph
\* const cycleDetection = this.detectCycles(graph)
DetectCycles(p) ==
    /\ call[p].pc = "detect"
    /\ call' = [call EXCEPT ![p].cycleCheck = detectCycles(call[p].graph),
                            ![p].pc = "done"]
    /\ UNCHANGED dependency_edges

\* the pairs (from_id, to_id) over three work items, self-loops and
\* opposite pairs among them
AnyPairs ==
    << << "A", "A" >>, << "A", "B" >>, << "A", "C" >>,
       << "B", "A" >>, << "B", "B" >>, << "B", "C" >>,
       << "C", "A" >>, << "C", "B" >>, << "C", "C" >> >>

\* the dependency row number i
AnyRow(i) ==
    [ id |-> i, tenant_id |-> "t1",
      from_id |-> AnyPairs[i][1], to_id |-> AnyPairs[i][2],
      dependency_type |-> "finish_to_start", lag_days |-> 0,
      created_at |-> 1, created_by |-> "u1", updated_at |-> 1,
      metadata |-> "{}" ]

\* detectCycles is handed the graph of three work items and of at most
\* MaxCycleEdges dependencies among them, cyclic or not, for every order of
\* the rows
InitCycles ==
    LET items == { WorkItem(id, "t1", "task", "todo", << 2 >>) :
                        id \in { "A", "B", "C" } }
        Request(rows, itemOrder, dependencyOrder) ==
            [ Idle EXCEPT
                !.op = "cycles", !.pc = "detect", !.user = User("t1"),
                !.items = items, !.result = rows,
                !.order = [ items |-> itemOrder,
                            dependencies |-> dependencyOrder ],
                !.graph = buildDependencyGraph(InOrder(items, itemOrder),
                                InOrder(rows, dependencyOrder)) ]
    IN  /\ dependency_edges = {}
        /\ \E ids \in { x \in SUBSET (1 .. Len(AnyPairs)) :
                            Cardinality(x) <= MaxCycleEdges } :
            LET rows == { AnyRow(i) : i \in ids }
            IN  \E itemOrder \in Orders(items),
                   dependencyOrder \in Orders(rows) :
                    call = [ p \in Procs |->
                                IF p = 1
                                THEN Request(rows, itemOrder, dependencyOrder)
                                ELSE Idle ]

NextCycles ==
    \/ DetectCycles(1)
    \/ Return(1)

SpecCycles == InitCycles /\ [][NextCycles]_vars

\* ------------------------------------------------- the connection pool
\* new Pool({ max: 20, connectionTimeoutMillis: 2000 }), with max scaled to
\* the number of request handlers
PoolSize == Cardinality(Procs)

\* handler p holds the client of its transaction
HoldsClient(p) == call[p].client.acquired > call[p].client.released

\* the connections of the pool that are checked out: the clients of the
\* transactions and the connections pool.query has taken for a read
InUse ==
    Cardinality({ p \in Procs : HoldsClient(p) })
        + Cardinality({ p \in Procs : call[p].pc = "query" })

\* the reads a mutation runs through this.db.query, in the order it runs them
PoolReads(op) ==
    CASE op = "create" -> << "work_items", "dependency_path" >>
      [] op = "update" -> << "getDependencyById" >>
      [] op = "delete" -> << "getDependencyById" >>

\* the statement a mutation runs on its client
ClientStatement(op) ==
    CASE op = "create" -> "INSERT"
      [] op = "update" -> "UPDATE"
      [] op = "delete" -> "DELETE"

\* a mutation arrives: this.db.transaction calls this.pool.connect()
PoolRequest(p) ==
    /\ call[p].op = "idle"
    /\ \E op \in { "create", "update", "delete" } :
            call' = [call EXCEPT ![p] =
                [Idle EXCEPT !.op = op, !.pc = "connect", !.user = User("t1")]]
    /\ UNCHANGED dependency_edges

\* pool.connect() resolves with a connection that is not checked out
PoolConnect(p) ==
    /\ call[p].pc = "connect"
    /\ InUse < PoolSize
    /\ call' = [call EXCEPT ![p].client.acquired = 1, ![p].pc = "begin"]
    /\ UNCHANGED dependency_edges

\* pool.connect() rejects after connectionTimeoutMillis with every
\* connection checked out; the call is outside the try block
PoolConnectTimeout(p) ==
    /\ call[p].pc = "connect"
    /\ InUse = PoolSize
    /\ call' = [call EXCEPT ![p].error = "DB_ERROR", ![p].pc = "done"]
    /\ UNCHANGED dependency_edges

\* inside the callback, await this.db.query(...): pool.query takes a
\* connection of the pool other than the client of the transaction
PoolQuery(p) ==
    /\ call[p].pc = "callback"
    /\ InUse < PoolSize
    /\ call' = [call EXCEPT ![p].pc = "query"]
    /\ UNCHANGED dependency_edges

\* the read returns and pool.query releases its connection; the callback
\* goes on to its next read or to the statement on its client
PoolQueryDone(p) ==
    /\ call[p].pc = "query"
    /\ LET reads == PoolReads(call[p].op)
           done == Cardinality(call[p].reads) + 1
       IN  call' = [call EXCEPT
                ![p].reads = @ \cup { StoreRead(reads[done], "pool") },
                ![p].pc = IF done < Len(reads) THEN "callback" ELSE "statement"]
    /\ UNCHANGED dependency_edges

\* pool.query rejects after connectionTimeoutMillis with every connection
\* checked out; the callback throws
PoolQueryTimeout(p) ==
    /\ call[p].pc = "callback"
    /\ InUse = PoolSize
    /\ call' = [call EXCEPT ![p].client.threw = TRUE,
                            ![p].error = "DB_ERROR",
                            ![p].pc = "catch"]
    /\ UNCHANGED dependency_edges

\* await client.query(insertQuery | updateQuery | deleteQuery), then the
\* events, and the callback returns
ClientQuery(p) ==
    /\ call[p].pc = "statement"
    /\ call' = [call EXCEPT
            ![p].client.statements = Append(@, ClientStatement(call[p].op)),
            ![p].stmts = @ + 1,
            ![p].pc = "commit"]
    /\ UNCHANGED dependency_edges

\* concurrent mutations on one pool
NextPool ==
    \E p \in Procs :
        \/ PoolRequest(p)
        \/ PoolConnect(p)
        \/ PoolConnectTimeout(p)
        \/ TxBegin(p)
        \/ PoolQuery(p)
        \/ PoolQueryDone(p)
        \/ PoolQueryTimeout(p)
        \/ ClientQuery(p)
        \/ TxCommit(p)
        \/ TxRollback(p)
        \/ TxRelease(p)
        \/ Return(p)

SpecPool == Init /\ [][NextPool]_vars

\* ---------------------------------------------------------------- controller
\* error.message.includes(token) for the message of an error of the kind
\* `error`: 'WORK_ITEMS_NOT_FOUND: ' and the ids, 'DEPENDENCY_NOT_FOUND',
\* 'CYCLE_DETECTED: ' and the chain, 'DUPLICATE_DEPENDENCY: ' and its text;
\* the messages of the store, of the queue and of the runtime hold no token
includes(error, token) ==
    CASE error = "WORK_ITEMS_NOT_FOUND" ->
            token \in { "NOT_FOUND", "WORK_ITEMS_NOT_FOUND" }
      [] error = "DEPENDENCY_NOT_FOUND" -> token = "NOT_FOUND"
      [] error = "CYCLE_DETECTED" -> token = "CYCLE_DETECTED"
      [] error = "DUPLICATE_DEPENDENCY" -> token = "DUPLICATE_DEPENDENCY"
      [] OTHER -> FALSE

\* the chain of else-ifs of handleError, in its order
handleError(error) ==
    IF includes(error, "CYCLE_DETECTED")
    THEN [ statusCode |-> 409, errorCode |-> "CYCLE_DETECTED" ]
    ELSE IF includes(error, "NOT_FOUND")
    THEN [ statusCode |-> 404, errorCode |-> "NOT_FOUND" ]
    ELSE IF includes(error, "DUPLICATE_DEPENDENCY")
    THEN [ statusCode |-> 409, errorCode |-> "DUPLICATE_DEPENDENCY" ]
    ELSE IF includes(error, "WORK_ITEMS_NOT_FOUND")
    THEN [ statusCode |-> 400, errorCode |-> "WORK_ITEMS_NOT_FOUND" ]
    ELSE IF includes(error, "INVALID_")
    THEN [ statusCode |-> 400, errorCode |-> "INVALID_REQUEST" ]
    ELSE [ statusCode |-> 500, errorCode |-> "INTERNAL_ERROR" ]

\* the response of the controller to the request that p has finished:
\* 201 for a created dependency, 200 for the other successes, 404 for a
\* dependency that getDependencyById did not find, handleError for what the
\* service threw
Response(p) ==
    IF call[p].error # "" /\ call[p].op = "get"
    THEN [ statusCode |-> 404, errorCode |-> "DEPENDENCY_NOT_FOUND" ]
    ELSE IF call[p].error # ""
    THEN handleError(call[p].error)
    ELSE [ statusCode |-> IF call[p].op = "create" THEN 201 ELSE 200,
           errorCode |-> "" ]

\* ================================================================== claims
\* the (from_id, to_id) pairs of the rows of one tenant
EdgePairs(tenantId) ==
    { << r.from_id, r.to_id >> : r \in OfTenant(dependency_edges, tenantId) }

Tenants == { u.tenant_id : u \in Users }

\* the pairs joined by a directed path of at least one edge
RECURSIVE Closure(_)
Closure(R) ==
    LET step == R \cup { << xy[1][1], xy[2][2] >> :
                            xy \in { q \in R \X R : q[1][2] = q[2][1] } }
    IN  IF step = R THEN R ELSE Closure(step)

HasCycle(R) == \E e \in Closure(R) : e[1] = e[2]

\* a cycle through at least two work items
HasProperCycle(R) ==
    \E e \in Closure(R) : e[1] # e[2] /\ << e[2], e[1] >> \in Closure(R)

Mutations == { "create", "update", "delete" }

Count(seq, x) == Cardinality({ i \in 1 .. Len(seq) : seq[i] = x })

\* the patch of call p names none of the fields an update can set
PatchIsEmpty(p) ==
    call[p].fields \cap {"dependency_type", "lag_days", "metadata"} = {}

\* the call of handler p has returned successfully
Succeeded(p) ==
    /\ call[p].pc = "done"
    /\ call[p].error = ""
    /\ call[p].outcome = "committed"

\* C1: after any sequence of accepted createEdge and deleteEdge calls run one
\* at a time from an empty tenant, the tenant's stored edges hold no directed
\* cycle of any length.
C1_EdgeSetAcyclic ==
    \A t \in Tenants : ~HasCycle(EdgePairs(t))

\* C2: createEdge with from_id = to_id, both naming a work item of the
\* tenant, is rejected by the cycle check (the call does not get past the
\* probe without CYCLE_DETECTED), so that no stored edge has from_id = to_id.
C2_SelfLoopRejected ==
    /\ \A p \in Procs :
        ( /\ call[p].op = "create"
          /\ call[p].from_id = call[p].to_id
          /\ \E w \in work_items : /\ w.id = call[p].from_id
                                   /\ w.tenant_id = call[p].user.tenant_id )
        => \/ call[p].pc \in {"validate", "probe"}
           \/ call[p].error = "CYCLE_DETECTED"
    /\ \A r \in dependency_edges : r.from_id # r.to_id

\* C3: whatever the interleaving of two concurrent createEdge calls of one
\* tenant, the committed edges hold no cycle that the two edges close
\* together.
C3_ConcurrentCreatesAcyclic ==
    \A t \in Tenants : ~HasProperCycle(EdgePairs(t))

\* C4: after any sequence of createEdge, updateEdge and deleteEdge calls no
\* two stored edges of a tenant share (from_id, to_id); the duplicate check of
\* createEdge keeps it so: no INSERT of such a sequence reaches the unique
\* index with a pair that is stored.
C4_UniquePairs ==
    /\ \A r, s \in dependency_edges : SameKey(r, s) => r = s
    /\ \A p \in Procs : call[p].error # "UNIQUE_VIOLATION"

\* a second createEdge of a stored pair has been refused, with two rows stored
C4_Witness ==
    /\ Cardinality(dependency_edges) = 2
    /\ \E p \in Procs :
        /\ call[p].pc = "done"
        /\ call[p].error = "DUPLICATE_DEPENDENCY"
        /\ ExistingEdges(call[p].user.tenant_id,
                         call[p].from_id, call[p].to_id) # {}

\* C5: every successful createEdge, deleteEdge and updateEdge with a
\* non-empty patch performs exactly one durable write (one row inserted,
\* changed or removed) and emits exactly one recalc event and exactly one
\* mutation event, whose routing key is that of the operation.
C5_OneWriteOneRecalcOneEvent ==
    \A p \in Procs :
        ( /\ Succeeded(p)
          /\ call[p].op \in Mutations
          /\ call[p].op = "update" => ~PatchIsEmpty(p) )
        => /\ call[p].rows = 1
           /\ Len(call[p].events) = 2
           /\ Count(call[p].events, "critical_path.recalculate") = 1
           /\ Count(call[p].events, RoutingKey(call[p].op)) = 1

\* C6: events are emitted only after the commit: a mutation whose transaction
\* is rolled back, for whatever reason, has published no recalc event and no
\* mutation event.
C6_NoEventOnRollback ==
    \A p \in Procs :
        call[p].outcome = "rolledback" => call[p].events = << >>

DomainErrors ==
    { "WORK_ITEMS_NOT_FOUND", "CYCLE_DETECTED", "DUPLICATE_DEPENDENCY",
      "DEPENDENCY_NOT_FOUND" }

\* a mutation refused by a domain check has written nothing, holds no
\* uncommitted write, has published nothing and does not commit
RejectedLeavesNoTrace ==
    \A p \in Procs :
        (call[p].op \in Mutations /\ call[p].error \in DomainErrors)
        => /\ call[p].stmts = 0
           /\ call[p].rows = 0
           /\ call[p].pending = {}
           /\ call[p].events = << >>
           /\ call[p].outcome # "committed"

\* createEdge of a stored pair A->B of distinct work items ends as
\* DUPLICATE_DEPENDENCY
DuplicateRefused ==
    \A p \in Procs :
        ( /\ call[p].op = "create"
          /\ call[p].pc = "done"
          /\ call[p].from_id # call[p].to_id
          /\ ExistingEdges(call[p].user.tenant_id, call[p].from_id,
                           call[p].to_id) \ call[p].result # {} )
        => call[p].error = "DUPLICATE_DEPENDENCY"

\* the stored rows change only when a mutation without error commits
StoreChangesOnCommitOnly ==
    dependency_edges' # dependency_edges
    => \E p \in Procs : /\ call[p].pc = "commit"
                        /\ call[p].error = ""
                        /\ call'[p].outcome = "committed"

IsCycleOver(chain, pairs) ==
    /\ Len(chain) >= 2
    /\ \A i \in 1 .. (Len(chain) - 1) : << chain[i], chain[i + 1] >> \in pairs
    /\ \/ chain[1] = chain[Len(chain)]
       \/ << chain[Len(chain)], chain[1] >> \in pairs

\* C8: the chain of a CYCLE_DETECTED error is a full offending cycle: every
\* consecutive pair is a stored edge or the proposed edge, and it returns to
\* its first node.
C8_ChainIsOffendingCycle ==
    \A p \in Procs :
        call[p].error = "CYCLE_DETECTED"
        => IsCycleOver(call[p].chain,
                EdgePairs(call[p].user.tenant_id)
                    \cup { << call[p].from_id, call[p].to_id >> })

\* every row a query of the call returned or changed, and every row it is
\* about to write, is of the caller's tenant
TouchesOwnTenantOnly ==
    \A p \in Procs :
        /\ call[p].touched \subseteq { call[p].user.tenant_id }
        /\ \A w \in call[p].pending : w.row.tenant_id = call[p].user.tenant_id
        /\ \A r \in call[p].result \cup call[p].existing \cup call[p].items :
                r.tenant_id = call[p].user.tenant_id

\* updateEdge, deleteEdge and getDependency of an id another tenant owns end
\* as not found
ForeignIdNotFound ==
    \A p \in Procs :
        ( /\ call[p].op \in {"update", "delete", "get"}
          /\ call[p].pc = "done"
          /\ \E r \in dependency_edges :
                /\ r.id = call[p].dependencyId
                /\ r.tenant_id # call[p].user.tenant_id )
        => call[p].error = "DEPENDENCY_NOT_FOUND"

\* the rows of a tenant change only in the commit of a call of that tenant
TenantRowsChangedByOwnCalls ==
    \A t \in Tenants :
        OfTenant(dependency_edges', t) # OfTenant(dependency_edges, t)
        => \E p \in Procs : /\ call[p].pc = "commit"
                            /\ call[p].user.tenant_id = t
                            /\ call'[p].outcome = "committed"

\* C9: no operation of a principal of tenant A reads, inserts, updates or
\* deletes a row of tenant B: createEdge inserts rows of the caller's tenant
\* only, updateEdge, deleteEdge and getDependency of an id of B fail as not
\* found and leave B's edge as it was, the cycle probe and the graph queries
\* read A's rows only.
C9_TenantIsolation ==
    /\ [](TouchesOwnTenantOnly /\ ForeignIdNotFound)
    /\ [][TenantRowsChangedByOwnCalls]_vars

\* a principal of t1 has asked to update or delete a stored edge of t2 and
\* was told it does not exist
C9_Witness ==
    \E p \in Procs :
        /\ call[p].op \in {"update", "delete"}
        /\ call[p].pc = "done"
        /\ call[p].user.tenant_id = "t1"
        /\ call[p].error = "DEPENDENCY_NOT_FOUND"
        /\ \E r \in dependency_edges :
                r.id = call[p].dependencyId /\ r.tenant_id = "t2"
        /\ OfTenant(dependency_edges, "t1") # {}

\* C10: updateEdge of an existing edge with a patch that holds none of
\* dependency_type, lag_days, metadata returns the existing edge as it is,
\* writes nothing (updated_at stays) and emits neither a recalc event nor a
\* mutation event.
C10_EmptyPatchIsNoOp ==
    \A p \in Procs :
        ( /\ call[p].op = "update"
          /\ PatchIsEmpty(p)
          /\ call[p].existing # {} )
        => /\ call[p].stmts = 0
           /\ call[p].pending = {}
           /\ call[p].events = << >>
           /\ call[p].existing \subseteq dependency_edges
           /\ Succeeded(p) => call[p].result = call[p].existing

\* an empty patch of a stored edge has returned that edge
C10_Witness ==
    \E p \in Procs :
        /\ call[p].op = "update"
        /\ call[p].fields = {}
        /\ Succeeded(p)
        /\ call[p].result # {}
        /\ call[p].result \subseteq dependency_edges

\* ---------------------------------------------------- critical path claims
\* handler p holds a graph with the annotations of calculateCriticalPath
Analysed(p) ==
    /\ call[p].op \in { "critical_path", "graph" }
    /\ call[p].pc \in { "risk", "done" }
    /\ call[p].analysis.computed

\* the edges of the graph of p into node n, and out of it
EdgesInto(p, n) == { e \in call[p].graph.edges : e.to = n }

EdgesOutOf(p, n) == { e \in call[p].graph.edges : e.from = n }

GraphNodeIds(p) == { n.id : n \in call[p].graph.nodes }

DurationOf(p, n) ==
    (CHOOSE x \in call[p].graph.nodes : x.id = n).duration_days

\* C11: forward pass on an acyclic graph: ES = 0 for a node without
\* predecessors; for a node with predecessors ES is exactly the maximum of
\* EF(pred) + lag over its predecessors, negative or not; EF = ES + duration.
C11_ForwardPassExact ==
    \A p \in Procs : Analysed(p) =>
        \A n \in GraphNodeIds(p) :
            /\ call[p].analysis.earliest_start[n] =
                    IF EdgesInto(p, n) = {}
                    THEN 0
                    ELSE SetMax({ call[p].analysis.earliest_finish[e.from]
                                    + e.lag_days : e \in EdgesInto(p, n) })
            /\ call[p].analysis.earliest_finish[n] =
                    call[p].analysis.earliest_start[n] + DurationOf(p, n)

\* C12: backward pass on an acyclic graph: LF = EF for a node without
\* successors; for a node with successors LF is exactly the minimum of
\* LS(succ) - lag over its successors, with no further cap by the project
\* completion; LS = LF - duration.
C12_BackwardPassExact ==
    \A p \in Procs : Analysed(p) =>
        \A n \in GraphNodeIds(p) :
            /\ call[p].analysis.latest_finish[n] =
                    IF EdgesOutOf(p, n) = {}
                    THEN call[p].analysis.earliest_finish[n]
                    ELSE SetMin({ call[p].analysis.latest_start[e.to]
                                    - e.lag_days : e \in EdgesOutOf(p, n) })
            /\ call[p].analysis.latest_start[n] =
                    call[p].analysis.latest_finish[n] - DurationOf(p, n)

\* C13: on every acyclic graph with non-negative durations and any lags,
\* every node has EF = ES + duration, LF = LS + duration, ES <= LS,
\* EF <= LF and slack >= 0.
C13_CpmSound ==
    \A p \in Procs : Analysed(p) =>
        \A n \in GraphNodeIds(p) :
            LET a == call[p].analysis
            IN  /\ a.earliest_finish[n] = a.earliest_start[n] + DurationOf(p, n)
                /\ a.latest_finish[n] = a.latest_start[n] + DurationOf(p, n)
                /\ a.earliest_start[n] <= a.latest_start[n]
                /\ a.earliest_finish[n] <= a.latest_finish[n]
                /\ a.slack_days[n] >= 0
                /\ a.slack_days[n] = a.latest_start[n] - a.earliest_start[n]

\* a graph of three nodes or more with a negative and a positive lag has
\* been analysed and one of its nodes has slack
C13_Witness ==
    \E p \in Procs :
        /\ Analysed(p)
        /\ Cardinality(GraphNodeIds(p)) >= 3
        /\ \E e, f \in call[p].graph.edges : e.lag_days < 0 /\ f.lag_days > 0
        /\ \E n \in GraphNodeIds(p) : call[p].analysis.slack_days[n] > 0

\* C14: on every acyclic graph, every edge (u, v) with lag l has
\* EF(u) + l <= ES(v).
C14_EdgesRespected ==
    \A p \in Procs : Analysed(p) =>
        \A e \in call[p].graph.edges :
            call[p].analysis.earliest_finish[e.from] + e.lag_days
                <= call[p].analysis.earliest_start[e.to]

\* a graph has been analysed in which one edge with a positive lag is tight
\* and another edge is not
C14_Witness ==
    \E p \in Procs :
        /\ Analysed(p)
        /\ \E e, f \in call[p].graph.edges :
            /\ e.lag_days > 0
            /\ call[p].analysis.earliest_finish[e.from] + e.lag_days
                    = call[p].analysis.earliest_start[e.to]
            /\ call[p].analysis.earliest_finish[f.from] + f.lag_days
                    < call[p].analysis.earliest_start[f.to]

\* the diamond A(4), B(2), C(3), D(1) with A->B, A->C (lag 1), B->D, C->D
IsDiamond(p) ==
    /\ { << n.id, n.duration_days >> : n \in call[p].graph.nodes }
            = { << "A", 4 >>, << "B", 2 >>, << "C", 3 >>, << "D", 1 >> }
    /\ { << e.from, e.to, e.lag_days >> : e \in call[p].graph.edges }
            = { << "A", "B", 0 >>, << "A", "C", 1 >>,
                << "B", "D", 0 >>, << "C", "D", 0 >> }

\* C15: for a non-empty acyclic graph total_duration_days is the largest EF,
\* the returned path holds exactly the nodes of slack 0, a node is flagged
\* critical iff its slack is 0, an edge is flagged critical iff both its
\* endpoints are critical; the diamond gives T = 9, critical {A, C, D} and
\* slack(B) = 2.
C15_OutputConsistent ==
    \A p \in Procs :
        (Analysed(p) /\ call[p].graph.nodes # {}) =>
            LET a == call[p].analysis
                zeroSlack == { n \in GraphNodeIds(p) : a.slack_days[n] = 0 }
            IN  /\ a.total_duration_days =
                        SetMax({ a.earliest_finish[n] : n \in GraphNodeIds(p) })
                /\ Range(a.path) = zeroSlack
                /\ a.is_critical = zeroSlack
                /\ a.critical_edges =
                        { e \in call[p].graph.edges :
                            e.from \in zeroSlack /\ e.to \in zeroSlack }
                /\ IsDiamond(p) =>
                        /\ a.total_duration_days = 9
                        /\ Range(a.path) = { "A", "C", "D" }
                        /\ a.slack_days["B"] = 2

\* the diamond has been analysed
C15_Witness ==
    \E p \in Procs :
        /\ Analysed(p)
        /\ call[p].pc = "done"
        /\ IsDiamond(p)
        /\ call[p].analysis.total_duration_days = 9

\* C16: for every non-empty acyclic graph, whatever the lags, the critical
\* nodes hold a source and a sink, and a chain of critical edges leads from
\* a critical source to a critical sink.
C16_CriticalPathContinuous ==
    \A p \in Procs :
        (Analysed(p) /\ call[p].graph.nodes # {}) =>
            LET critical == call[p].analysis.is_critical
                sources == { n \in critical : EdgesInto(p, n) = {} }
                sinks == { n \in critical : EdgesOutOf(p, n) = {} }
                chains == Closure({ << e.from, e.to >> :
                                        e \in call[p].analysis.critical_edges })
            IN  /\ sources # {}
                /\ sinks # {}
                /\ \E s \in sources, t \in sinks :
                        s = t \/ << s, t >> \in chains

\* C17: for a tenant without work items the critical-path computation
\* returns an empty path and total_duration_days = 0.
C17_EmptyGraphTotalZero ==
    \A p \in Procs :
        (Analysed(p) /\ call[p].graph.nodes = {}) =>
            /\ call[p].analysis.path = << >>
            /\ call[p].analysis.total_duration_days = 0

\* C18: getDependencyGraph with a filter of work item ids, on stored edges
\* without a cycle, ends without error, and every edge of the graph it
\* analyses and returns has both endpoints among the returned nodes.
C18_FilteredGraphHasNoDanglingEdge ==
    \A p \in Procs :
        ( /\ call[p].op = "graph"
          /\ call[p].pc = "done"
          /\ ~HasCycle(EdgePairs(call[p].user.tenant_id)) )
        => /\ call[p].error = ""
           /\ \A e \in call[p].graph.edges :
                { e.from, e.to } \subseteq GraphNodeIds(p)
           /\ { r.id : r \in { x \in call[p].result :
                    { x.from_id, x.to_id } \subseteq { w.id : w \in call[p].items } } }
                = { e.id : e \in call[p].graph.edges }

\* the analysis of handler p has answered
AnalysisDone(p) ==
    /\ call[p].op = "critical_path"
    /\ call[p].pc = "done"
    /\ call[p].error = ""

\* C19: for any graph, the empty one too, 0 <= risk_score <= 1 and
\* 0.1 <= completion_probability <= 1 with
\* completion_probability = max(0.1, 1 - risk_score).
C19_RiskAndProbabilityInRange ==
    \A p \in Procs : AnalysisDone(p) =>
        LET r == call[p].risk_score
            c == call[p].completion_probability
        IN  /\ ~r.nan
            /\ 0 <= r.num /\ r.num <= r.den
            /\ ~c.nan
            /\ c.den <= 10 * c.num /\ c.num <= c.den
            /\ c.num * r.den * 10 =
                    IF 10 * (r.den - r.num) >= r.den
                    THEN 10 * (r.den - r.num) * c.den
                    ELSE r.den * c.den

\* C20: the risk score of a graph of N nodes is
\* min(1, (0.3 |critical| + 0.5 |blocked| + 0.2 |duration > 30|) / N) for
\* N > 0 and 0 for N = 0.
C20_RiskScoreFormula ==
    \A p \in Procs : AnalysisDone(p) =>
        LET r == call[p].risk_score
            N == Cardinality(call[p].graph.nodes)
            weight == 3 * Cardinality({ n \in call[p].graph.nodes :
                                            call[p].analysis.slack_days[n.id] = 0 })
                        + 5 * Cardinality({ w \in call[p].items :
                                            w.status = "blocked" })
                        + 2 * Cardinality({ n \in call[p].graph.nodes :
                                            n.duration_days > 30 })
        IN  /\ ~r.nan
            /\ N = 0 => r.num = 0
            /\ N > 0 => IF weight >= 10 * N
                        THEN r.num = r.den
                        ELSE r.num * 10 * N = weight * r.den

\* the risk tags whose condition holds for node n of the graph of p
TagsOf(p, n) ==
    { tag \in { "High dependency count", "Blocks many items",
                "Currently blocked", "Long duration" } :
        \/ tag = "High dependency count" /\ Cardinality(EdgesInto(p, n.id)) > 3
        \/ tag = "Blocks many items" /\ Cardinality(EdgesOutOf(p, n.id)) > 3
        \/ tag = "Currently blocked" /\ n.status = "blocked"
        \/ tag = "Long duration" /\ n.duration_days > 30 }

\* C21: a node is in the bottleneck list, once, iff its slack is 0 and one
\* of indegree > 3, outdegree > 3, status blocked, duration_days > 30 holds;
\* its risk_factors are exactly the tags of the conditions that hold, its
\* delay_impact_days is its duration, and the list is sorted by
\* delay_impact_days, largest first.
C21_BottleneckList ==
    \A p \in Procs : AnalysisDone(p) =>
        LET bs == call[p].bottlenecks
            a == call[p].analysis
        IN  /\ \A n \in call[p].graph.nodes :
                    Cardinality({ i \in 1 .. Len(bs) : bs[i].work_item_id = n.id })
                        = IF a.slack_days[n.id] = 0 /\ TagsOf(p, n) # {}
                          THEN 1 ELSE 0
            /\ \A i \in 1 .. Len(bs) :
                    \E n \in call[p].graph.nodes :
                        /\ n.id = bs[i].work_item_id
                        /\ Range(bs[i].risk_factors) = TagsOf(p, n)
                        /\ bs[i].delay_impact_days = n.duration_days
            /\ \A i, j \in 1 .. Len(bs) :
                    i < j => bs[i].delay_impact_days >= bs[j].delay_impact_days

\* a blocked hub of 40 days with four dependencies into it is listed with
\* its three tags, behind no shorter entry, while a blocked work item with
\* slack is not listed
C21_Witness ==
    /\ AnalysisDone(1)
    /\ LET bs == call[1].bottlenecks
       IN  /\ Len(bs) >= 3
           /\ \E i \in 1 .. Len(bs) :
                /\ bs[i].work_item_id = "H"
                /\ bs[i].delay_impact_days = 40
                /\ Range(bs[i].risk_factors) =
                        { "High dependency count", "Currently blocked",
                          "Long duration" }
           /\ \E n \in call[1].graph.nodes :
                /\ n.status = "blocked"
                /\ call[1].analysis.slack_days[n.id] > 0
                /\ \A i \in 1 .. Len(bs) : bs[i].work_item_id # n.id

\* the default duration of a work item type
DefaultDuration(type) ==
    CASE type = "objective" -> 90
      [] type = "strategy" -> 60
      [] type = "initiative" -> 30
      [] type = "task" -> 7
      [] type = "subtask" -> 3
      [] OTHER -> 7

\* C22: the duration_days of a node is the estimated_duration_days of its
\* work item whenever that is set, 0 included, and the default of the work
\* item's type otherwise.
C22_DurationFromEstimateOrDefault ==
    \A p \in Procs :
        (call[p].op = "critical_path" /\ call[p].pc \in { "cpm", "risk", "done" }
            /\ call[p].error = "") =>
            \A w \in call[p].items :
                \E n \in call[p].graph.nodes :
                    /\ n.id = w.id
                    /\ n.duration_days =
                            IF w.estimated_duration_days # << >>
                            THEN w.estimated_duration_days[1]
                            ELSE DefaultDuration(w.type)

\* C23: a createEdge that fails because a work item is missing is answered
\* with HTTP 400 and the code WORK_ITEMS_NOT_FOUND.
C23_MissingWorkItemIs400 ==
    \A p \in Procs :
        (call[p].op = "create" /\ call[p].pc = "done"
            /\ call[p].error = "WORK_ITEMS_NOT_FOUND") =>
            Response(p) = [ statusCode |-> 400, errorCode |-> "WORK_ITEMS_NOT_FOUND" ]

\* the dependency types of the data model
SpecifiedTypes ==
    { "finish_to_start", "start_to_start", "finish_to_finish", "start_to_finish" }

\* C24: a createEdge or updateEdge whose dependency_type is none of the four
\* types writes nothing and is answered with INVALID_REQUEST, unless the
\* work items, the cycle probe, the duplicate check, the store or the queue
\* rejected it first.
C24_UnknownTypeRejected ==
    \A p \in Procs :
        (call[p].op \in { "create", "update" } /\ call[p].pc = "done"
            /\ "dependency_type" \in call[p].fields
            /\ call[p].data.dependency_type \notin SpecifiedTypes) =>
            /\ call[p].outcome # "committed"
            /\ \/ Response(p).errorCode = "INVALID_REQUEST"
               \/ call[p].error \in DomainErrors \cup { "DB_ERROR", "MQ_ERROR" }

\* C25: a createEdge refused because an edge of its tenant with its
\* (from_id, to_id) is stored, by the duplicate check or by the unique index
\* when a concurrent create of the same pair committed first, is answered
\* with 409 DUPLICATE_DEPENDENCY.
C25_UniquenessRefusalIsDuplicate ==
    \A p \in Procs :
        (call[p].op = "create" /\ call[p].pc = "done"
            /\ call[p].error \in { "DUPLICATE_DEPENDENCY", "UNIQUE_VIOLATION" }) =>
            Response(p) = [ statusCode |-> 409, errorCode |-> "DUPLICATE_DEPENDENCY" ]

\* C26: every read of the store that a mutation issues between BEGIN and
\* COMMIT or ROLLBACK is issued on the connection that holds the
\* transaction.
C26_ReadsOnTransactionConnection ==
    \A p \in Procs :
        call[p].op \in Mutations =>
            \A r \in call[p].reads : r.on = "client"

\* C27: a connection that DatabaseService.transaction acquired is released
\* exactly once on every exit path, whether the callback returned or threw
\* and whether BEGIN, COMMIT or ROLLBACK failed, and never before the exit;
\* a transaction whose callback threw sends no COMMIT and none of its rows
\* is committed by it.
C27_ReleasedOnceNeverCommittedAfterThrow ==
    \A p \in Procs :
        call[p].op = "transaction" =>
            LET c == call[p].client
            IN  /\ c.acquired <= 1
                /\ c.released = IF call[p].pc = "done" THEN c.acquired ELSE 0
                /\ (call[p].pc = "done" /\ call[p].error # "CONNECT_ERROR")
                        => c.acquired = 1
                /\ c.threw =>
                        /\ call[p].outcome # "committed"
                        /\ Count(c.statements, "COMMIT") = 0
                        /\ call[p].pc = "done" => call[p].error # ""

\* transaction has exited with the error of a ROLLBACK that failed after the
\* callback threw with a row written, and with the connection released
C27_Witness ==
    \E p \in Procs :
        /\ call[p].op = "transaction"
        /\ call[p].pc = "done"
        /\ call[p].client.threw
        /\ call[p].result # {}
        /\ call[p].error = "ROLLBACK_ERROR"
        /\ call[p].client.statements = << "BEGIN", "ROLLBACK" >>
        /\ call[p].client.released = 1

\* C28: publication is fire-and-forget: a mutation whose recalc publish or
\* mutation-event publish failed is answered as a success and its write is
\* committed.
C28_PublishFailureDoesNotFailMutation ==
    \A p \in Procs :
        (call[p].op \in Mutations /\ call[p].pc = "done"
            /\ \/ call[p].error = "MQ_ERROR"
               \/ (call[p].rows > 0 /\ Len(call[p].events) < 2)) =>
            /\ Response(p).statusCode \in { 200, 201 }
            /\ call[p].outcome = "committed"

\* C29: the outputs of an analysis (the critical path list, the total
\* duration, the slack and the critical flag of every node, the reported
\* cycles and the bottleneck list) are those computed from the same rows
\* returned in another order.
C29_OutputsIndependentOfRowOrder ==
    \A p \in Procs : AnalysisDone(p) =>
        LET graph == buildDependencyGraph(
                        InOrder(call[p].items, RowOrder(call[p].items)),
                        InOrder(call[p].result, RowOrder(call[p].result)))
            criticalPath == calculateCriticalPath(graph)
            a == call[p].analysis
        IN  /\ a.path = criticalPath.path
            /\ a.total_duration_days = criticalPath.total_duration_days
            /\ a.slack_days = criticalPath.slack_days
            /\ a.is_critical = criticalPath.is_critical
            /\ a.cycles = detectCycles(graph).cycles
            /\ call[p].bottlenecks = identifyBottlenecks(graph, criticalPath)

\* the work items that a walk of 1 to k dependencies of the tenant leads to
\* from one of `ids`
RECURSIVE ReachedWithin(_, _, _)
ReachedWithin(tenantId, ids, k) ==
    IF k = 0
    THEN {}
    ELSE LET next == { r.to_id : r \in { x \in dependency_edges :
                            x.tenant_id = tenantId /\ x.from_id \in ids } }
         IN  next \cup ReachedWithin(tenantId, next, k - 1)

\* the probe of p has returned
Probed(p) ==
    /\ call[p].op = "create"
    /\ call[p].pc \in { "rollback", "dupcheck" }
    /\ call[p].error \in { "", "CYCLE_DETECTED" }

\* C30: wouldCreateCycle returns, also on a store that holds a cycle; it
\* returns positive iff the tenant's stored dependencies hold a directed
\* path of 1 to 20 dependencies from to_id to from_id, and then the chain
\* [to_id, from_id]; on a miss it returns has_cycles = false and no cycle.
C30_ProbeFindsPathsUpTo20 ==
    \A p \in Procs : Probed(p) =>
        LET hit == call[p].from_id \in
                    ReachedWithin(call[p].user.tenant_id, { call[p].to_id }, 20)
        IN  /\ call[p].cycleCheck.has_cycles = hit
            /\ hit => call[p].cycleCheck.cycles
                            = << << call[p].to_id, call[p].from_id >> >>
            /\ ~hit => call[p].cycleCheck.cycles = << >>
            /\ call[p].pc = IF hit THEN "rollback" ELSE "dupcheck"

\* on a ring the probe has returned a hit for a path of exactly 20
\* dependencies
C30_Witness ==
    /\ Probed(1)
    /\ call[1].cycleCheck.has_cycles
    /\ dependency_edges = Ring(DepthLimit + 2)
    /\ call[1].to_id = "n02" /\ call[1].from_id = "n22"
    /\ "n22" \notin ReachedWithin("t1", { "n02" }, 19)

\* the (from, to) pairs of the edges of the graph of p
GraphPairs(p) == { << e.from, e.to >> : e \in call[p].graph.edges }

\* detectCycles has returned for the graph of p
CyclesDetected(p) ==
    /\ call[p].op = "cycles"
    /\ call[p].pc = "done"

\* C31: detectCycles returns has_cycles = true iff the graph holds a
\* directed cycle, a self-loop included, whatever the order of its nodes and
\* edges.
C31_HasCyclesIffCyclic ==
    \A p \in Procs : CyclesDetected(p) =>
        call[p].cycleCheck.has_cycles = HasCycle(GraphPairs(p))

\* has_cycles is true for a graph whose only cycle is a self-loop visited
\* last, and for one whose cycle is A -> B -> C -> A
C31_Witness ==
    /\ CyclesDetected(1)
    /\ call[1].cycleCheck.has_cycles
    /\ \/ /\ GraphPairs(1) = { << "A", "B" >>, << "B", "C" >>, << "C", "C" >> }
          /\ call[1].graph.node_order = << "A", "B", "C" >>
       \/ GraphPairs(1) = { << "A", "B" >>, << "B", "C" >>, << "C", "A" >> }

\* c is a closed walk of the graph of p: it ends where it starts and each
\* consecutive pair of it is an edge
IsClosedWalk(p, c) ==
    /\ Len(c) >= 2
    /\ c[1] = c[Len(c)]
    /\ \A i \in 1 .. (Len(c) - 1) : << c[i], c[i + 1] >> \in GraphPairs(p)

\* the nodes of the graph of p that lie on a directed cycle
OnCycle(p) == { n \in NodeIds(call[p].graph) :
                    << n, n >> \in Closure(GraphPairs(p)) }

\* C32: every cycle detectCycles records is a closed walk of the graph, and
\* affected_work_items holds only nodes that lie on a directed cycle.
C32_CyclesAreClosedWalks ==
    \A p \in Procs : CyclesDetected(p) =>
        /\ \A i \in 1 .. Len(call[p].cycleCheck.cycles) :
                IsClosedWalk(p, call[p].cycleCheck.cycles[i])
        /\ call[p].cycleCheck.affected_work_items \subseteq OnCycle(p)

\* n and m are in one weakly connected component of the graph of p
WeaklyConnected(p, n, m) ==
    \/ n = m
    \/ << n, m >> \in Closure(GraphPairs(p)
                \cup { << e[2], e[1] >> : e \in GraphPairs(p) })

\* C33: detectCycles goes on after the first hit: it reports at least one
\* cycle for every weakly connected component that holds a cycle.
C33_CyclePerComponent ==
    \A p \in Procs : CyclesDetected(p) =>
        \A n \in OnCycle(p) :
            \E i \in 1 .. Len(call[p].cycleCheck.cycles) :
                \E j \in 1 .. Len(call[p].cycleCheck.cycles[i]) :
                    WeaklyConnected(p, n, call[p].cycleCheck.cycles[i][j])

\* two components with a cycle each, A <-> B and C -> C, and a cycle
\* reported in each
C33_Witness ==
    /\ CyclesDetected(1)
    /\ GraphPairs(1) = { << "A", "B" >>, << "B", "A" >>, << "C", "C" >> }
    /\ Len(call[1].cycleCheck.cycles) = 2
    /\ << "C", "C" >> \in Range(call[1].cycleCheck.cycles)

\* the transaction of an update of p commits in this step
UpdateCommits(p) ==
    /\ call[p].op = "update"
    /\ call[p].pc = "commit"
    /\ call'[p].outcome = "committed"

\* row after is row before but for the fields of the patch and updated_at
ChangedByPatchOnly(before, after, fields) ==
    /\ after.id = before.id
    /\ after.tenant_id = before.tenant_id
    /\ after.from_id = before.from_id
    /\ after.to_id = before.to_id
    /\ after.created_at = before.created_at
    /\ after.created_by = before.created_by
    /\ "dependency_type" \notin fields =>
            after.dependency_type = before.dependency_type
    /\ "lag_days" \notin fields => after.lag_days = before.lag_days
    /\ "metadata" \notin fields => after.metadata = before.metadata

\* C34: an update that succeeds changes only the fields of its patch and
\* updated_at on the edge it names; id, tenant_id, from_id, to_id,
\* created_at, created_by and every other stored edge stay as they were, and
\* so do the (from_id, to_id) pairs of every tenant.
C34_UpdateChangesPatchFieldsOnly ==
    [][ \A p \in Procs : UpdateCommits(p) =>
            /\ Cardinality(dependency_edges') = Cardinality(dependency_edges)
            /\ \A r \in dependency_edges :
                    IF r.id = call[p].dependencyId
                        /\ r.tenant_id = call[p].user.tenant_id
                    THEN \E after \in dependency_edges' :
                            ChangedByPatchOnly(r, after, call[p].fields)
                    ELSE r \in dependency_edges'
            /\ \A t \in Tenants : EdgePairs(t)' = EdgePairs(t) ]_vars

\* an update of lag_days has committed: the edge carries the new lag and a
\* new updated_at, and the tenant's other edge is stored beside it
C34_Witness ==
    \E p \in Procs :
        /\ Succeeded(p)
        /\ call[p].op = "update"
        /\ "lag_days" \in call[p].fields
        /\ Cardinality(OfTenant(dependency_edges, call[p].user.tenant_id)) = 2
        /\ \E r \in dependency_edges :
                /\ r.id = call[p].dependencyId
                /\ r.tenant_id = call[p].user.tenant_id
                /\ r.lag_days = call[p].data.lag_days
                /\ r.updated_at # r.created_at

\* getDependencyGraph of p, called without work item ids, has ended
GraphRead(p) ==
    /\ call[p].op = "graph"
    /\ call[p].pc = "done"
    /\ call[p].workItemIds = {}

\* C35: getDependencyGraph returns a result for every stored graph, and on
\* stored edges that hold a cycle, a self-loop included, the result has
\* cycle_detected = true though the critical path is computed first.
C35_GraphReadReportsCycle ==
    \A p \in Procs : GraphRead(p) =>
        /\ call[p].error = ""
        /\ HasCycle(EdgePairs(call[p].user.tenant_id)) =>
                call[p].analysis.cycle_detected

\* p and q are two handlers that both ran deleteDependency for one edge of
\* one tenant and have both ended
BothDeleted(p, q) ==
    /\ p # q
    /\ call[p].op = "delete" /\ call[q].op = "delete"
    /\ call[p].pc = "done" /\ call[q].pc = "done"
    /\ call[p].dependencyId = call[q].dependencyId
    /\ call[p].user.tenant_id = call[q].user.tenant_id

\* C36: of two concurrent deletes of one edge at most one succeeds and
\* publishes dependency.deleted; the other fails, with DEPENDENCY_NOT_FOUND
\* unless the store or the message queue failed.
C36_OneDeleteSucceeds ==
    \A p, q \in Procs : (BothDeleted(p, q) /\ Succeeded(p)) =>
        /\ call[q].error \in { "DEPENDENCY_NOT_FOUND", "DB_ERROR", "MQ_ERROR" }
        /\ call[q].outcome # "committed"

\* C37: an update that runs beside a delete of the same edge never
\* succeeds and never publishes dependency.updated when its UPDATE matched no
\* row: it fails, or it returns the edge it wrote.
C37_UpdateWroteWhatItReturns ==
    \A p \in Procs :
        ( /\ call[p].op = "update"
          /\ ~NoUpdates(call[p].fields) ) =>
            /\ "dependency.updated" \in Range(call[p].events) =>
                    call[p].rows > 0
            /\ Succeeded(p) =>
                    /\ call[p].rows > 0
                    /\ call[p].result # {}

\* handler p is inside its transaction, holds its client and waits for
\* pool.query to get a connection for a read
WaitsForRead(p) ==
    /\ HoldsClient(p)
    /\ call[p].pc = "callback"

\* C38: mutations cannot block one another on the pool: in no reachable
\* state are all connections of the pool held by transactions in flight
\* that each wait for one more connection for a read of their own.
C38_NoPoolStarvation ==
    ~ ( /\ Cardinality({ p \in Procs : WaitsForRead(p) }) = PoolSize
        /\ InUse = PoolSize )

\* the transaction of a create or of a delete of p commits in this step
MutationCommits(p, op) ==
    /\ call[p].op = op
    /\ call[p].pc = "commit"
    /\ call'[p].outcome = "committed"

\* createDependency(tenantId, fromId, toId) would pass its cycle check and
\* its duplicate check on the stored edges
Acceptable(tenantId, fromId, toId) ==
    /\ ~wouldCreateCycle(dependency_edges, tenantId, fromId, toId).has_cycles
    /\ ExistingEdges(tenantId, fromId, toId) = {}

\* C39: a create that succeeds adds its (from_id, to_id) pair to the pairs
\* of its tenant and a delete of the created edge that succeeds takes just
\* that pair away again, so the two together restore the pairs of the
\* tenant; the same create is then accepted again.
C39_CreateThenDeleteRestores ==
    /\ [][ \A p \in Procs :
            /\ MutationCommits(p, "create") =>
                LET t == call[p].user.tenant_id
                    pair == << call[p].from_id, call[p].to_id >>
                IN  /\ pair \notin EdgePairs(t)
                    /\ EdgePairs(t)' = EdgePairs(t) \cup { pair }
                    /\ \A o \in Tenants \ { t } : EdgePairs(o)' = EdgePairs(o)
            /\ MutationCommits(p, "delete") =>
                LET t == call[p].user.tenant_id
                IN  \A r \in call[p].existing :
                        /\ << r.from_id, r.to_id >> \in EdgePairs(t)
                        /\ EdgePairs(t)' =
                                EdgePairs(t) \ { << r.from_id, r.to_id >> }
                        /\ \A o \in Tenants \ { t } :
                                EdgePairs(o)' = EdgePairs(o) ]_vars
    /\ [] \A p \in Procs :
            (Succeeded(p) /\ call[p].op = "delete") =>
                \A r \in call[p].existing :
                    Acceptable(r.tenant_id, r.from_id, r.to_id)

\* the edge B -> C created beside A -> B has been deleted: the tenant is
\* back to the pair A -> B, and B -> C would be accepted again
C39_Witness ==
    \E p \in Procs :
        /\ Succeeded(p)
        /\ call[p].op = "delete"
        /\ \E r \in call[p].existing :
                /\ r.from_id = "B" /\ r.to_id = "C"
                /\ r.created_at > 1 \/ r.id > 1
                /\ EdgePairs(r.tenant_id) = { << "A", "B" >> }
                /\ Acceptable(r.tenant_id, r.from_id, r.to_id)

====
